---- MODULE Spec2Model ----
(***************************************************************************)
(* A model of dj-urls-panel: the SSRF check _is_url_allowed and the proxy  *)
(* endpoint execute_request (dj_urls_panel/views.py), and the route        *)
(* inventory of dj_urls_panel/utils.py: the pattern functions, the handler *)
(* introspection, the collector and the exclusion filter of                *)
(* UrlListInterface.                                                       *)
(*                                                                         *)
(* Text that the code inspects character by character (hostnames, route    *)
(* patterns) is a sequence of one-character strings; text that the code    *)
(* only passes along is a TLA+ string.                                     *)
(***************************************************************************)
EXTENDS Integers, Sequences, FiniteSets, TLC

VARIABLES
    \* ---- process-wide configuration (settings.DJ_URLS_PANEL_SETTINGS) ----
    enable_testing,     \* ENABLE_TESTING
    allowed_hosts,      \* ALLOWED_HOSTS: [configured, hosts]
    requests_installed, \* whether "import requests" succeeds
    \* ---- one call of _is_url_allowed ----
    chk_url,            \* the URL last given to _is_url_allowed
    chk_verdict,        \* what it returned
    \* ---- one invocation of execute_request ----
    pc,                 \* "idle", "preflight", "probe", "done"
    envelope,           \* request.body: [kind, data], data the dict it parses to
    caller,             \* request.COOKIES / request.META of the operator
    method,             \* data["method"].upper()
    headers,            \* the headers dict (operator's, then added to)
    cookies,            \* the cookies dict
    auth,               \* the basic-auth pair, or NoAuth
    kwargs,             \* request_kwargs, or NoKwargs before it is built
    steps,              \* what the invocation has done so far, in order
    calls,              \* the outbound calls made so far, in order
    outcomes,           \* how each outbound call ended, in order
    result,             \* the JsonResponse returned, or NoResult
    \* ---- one call of UrlListInterface._filter_excluded_urls ----
    exclude_patterns,   \* self.exclude_patterns
    flt_input,          \* the url_patterns argument
    flt_output,         \* the list returned
    \* ---- one call of a pattern function of utils.py ----
    nrm_op,             \* which function: "strip", "clean", "extract", or "none"
    nrm_input,          \* the pattern text given to it
    nrm_output,         \* what it returned
    \* ---- one call of get_view_http_methods ----
    hdl_callback,       \* the callback given to it
    hdl_methods,        \* the list it returned
    \* ---- one UrlListInterface and its traversal ----
    url_config,         \* DJ_URLS_PANEL_SETTINGS['URL_CONFIG'], or None
    urlconf_arg,        \* the urlconf argument of UrlListInterface(...)
    urlconf,            \* self.urlconf, or None before construction
    tree,               \* self.resolver.url_patterns: [root, nodes]
    col_output,         \* what _extract_patterns returned or raised
    \* ---- one call of get_drf_serializer_info ----
    ser_view_class,     \* the view_class given to it
    ser_info,           \* what it returned
    \* ---- the public methods of one UrlListInterface ----
    self_url_patterns,  \* self._url_patterns
    api_call,           \* the method last called and its argument
    api_output,         \* what it returned
    traversals          \* how often _extract_patterns has run on this instance

proxyVars == <<pc, envelope, caller, method, headers, cookies, auth, kwargs,
               steps, calls, outcomes, result>>
settingsVars == <<enable_testing, allowed_hosts, requests_installed>>
chkVars == <<chk_url, chk_verdict>>
fltVars == <<exclude_patterns, flt_input, flt_output>>
nrmVars == <<nrm_op, nrm_input, nrm_output>>
hdlVars == <<hdl_callback, hdl_methods>>
colVars == <<url_config, urlconf_arg, urlconf, tree, col_output>>
serVars == <<ser_view_class, ser_info>>
apiVars == <<self_url_patterns, api_call, api_output, traversals>>
invVars == <<nrmVars, hdlVars, colVars, serVars, apiVars>>
vars == <<settingsVars, chkVars, proxyVars, fltVars, invVars>>

(***************************************************************************)
(* Characters and text                                                     *)
(***************************************************************************)
UpperAlpha == <<"A","B","C","D","E","F","G","H","I","J","K","L","M",
                "N","O","P","Q","R","S","T","U","V","W","X","Y","Z">>
LowerAlpha == <<"a","b","c","d","e","f","g","h","i","j","k","l","m",
                "n","o","p","q","r","s","t","u","v","w","x","y","z">>
DigitChars == <<"0","1","2","3","4","5","6","7","8","9">>
HexChars == DigitChars \o <<"a","b","c","d","e","f">>

\* str.lower() on one character
LowerChar(c) ==
    IF \E i \in 1..Len(UpperAlpha) : UpperAlpha[i] = c
    THEN LowerAlpha[CHOOSE i \in 1..Len(UpperAlpha) : UpperAlpha[i] = c]
    ELSE c

\* str.lower()
Lower(s) == [i \in 1..Len(s) |-> LowerChar(s[i])]

\* s.startswith(p)
StartsWith(s, p) == Len(p) <= Len(s) /\ SubSeq(s, 1, Len(p)) = p

\* s.find(c) + 1: the position of the first c in s, 0 when there is none
IndexOf(c, s) ==
    IF \E i \in 1..Len(s) : s[i] = c
    THEN CHOOSE i \in 1..Len(s) : s[i] = c /\ \A j \in 1..(i - 1) : s[j] # c
    ELSE 0

\* s.rfind(c) + 1: the position of the last c in s, 0 when there is none
LastIndexOf(c, s) ==
    IF \E i \in 1..Len(s) : s[i] = c
    THEN CHOOSE i \in 1..Len(s) : s[i] = c /\ \A j \in (i + 1)..Len(s) : s[j] # c
    ELSE 0

\* the text after position i
After(s, i) == SubSeq(s, i + 1, Len(s))

\* the text before position i
Before(s, i) == SubSeq(s, 1, i - 1)

(***************************************************************************)
(* URLs.  urlparse splits a URL into scheme, netloc and path; the model    *)
(* takes that split as given and computes .hostname from the netloc.       *)
(***************************************************************************)
Url(scheme, netloc, path) == [scheme |-> scheme, netloc |-> netloc, path |-> path]

\* the empty string
EmptyUrl == Url("", <<>>, "")

\* "not url"
UrlIsEmpty(url) == url = EmptyUrl

\* urlsplit raises ValueError("Invalid IPv6 URL") on an unbalanced bracket
UrlParseRaises(url) ==
    LET open == IndexOf("[", url.netloc)
        close == IndexOf("]", url.netloc)
    IN  (open > 0 /\ close = 0) \/ (close > 0 /\ open = 0)

\* parsed.hostname: the netloc without userinfo, brackets and port, in lower
\* case; <<>> stands for None (the code tests "not hostname")
Hostname(url) ==
    LET hostinfo == After(url.netloc, LastIndexOf("@", url.netloc))
        open == IndexOf("[", hostinfo)
        bracketed == After(hostinfo, open)
        close == IndexOf("]", bracketed)
        colon == IndexOf(":", hostinfo)
        raw == IF open > 0
               THEN (IF close > 0 THEN Before(bracketed, close) ELSE bracketed)
               ELSE (IF colon > 0 THEN Before(hostinfo, colon) ELSE hostinfo)
    IN  Lower(raw)


(***************************************************************************)
(* _is_url_allowed                                                         *)
(***************************************************************************)
\* allowed_hosts = panel_settings.get('ALLOWED_HOSTS', None)
NotConfigured == [configured |-> FALSE, hosts |-> {}]
Configured(hosts) == [configured |-> TRUE, hosts |-> hosts]

\* A pattern of blocked_patterns: the literal text lit, then one of the
\* alternatives alt (none when alt is empty), then the literal text tail;
\* anchored at the end of the text when end is TRUE.
Pattern(lit, alt, tail, end) == [lit |-> lit, alt |-> alt, tail |-> tail, end |-> end]

\* (1[6-9]|2[0-9]|3[01])
PrivateClassB ==
    {<<"1", DigitChars[d]>> : d \in 7..10} \cup
    {<<"2", DigitChars[d]>> : d \in 1..10} \cup
    {<<"3", DigitChars[d]>> : d \in 1..2}

blocked_patterns == <<
    Pattern(<<"l","o","c","a","l","h","o","s","t">>, {}, <<>>, TRUE),
    Pattern(<<"1","2","7",".">>, {}, <<>>, FALSE),
    Pattern(<<"1","0",".">>, {}, <<>>, FALSE),
    Pattern(<<"1","7","2",".">>, PrivateClassB, <<".">>, FALSE),
    Pattern(<<"1","9","2",".","1","6","8",".">>, {}, <<>>, FALSE),
    Pattern(<<"1","6","9",".","2","5","4",".">>, {}, <<>>, FALSE),
    Pattern(<<":",":","1">>, {}, <<>>, TRUE),
    Pattern(<<"f","e","8","0",":">>, {}, <<>>, FALSE),
    Pattern(<<"f","c","0","0",":">>, {}, <<>>, FALSE) >>

\* re.match(pattern, text, flags) and compiled.match(text): the pattern
\* matches at the start of the text; ignorecase is re.IGNORECASE
ReMatch(pattern, text, ignorecase) ==
    \E a \in (IF pattern.alt = {} THEN {<<>>} ELSE pattern.alt) :
        LET full == pattern.lit \o a \o pattern.tail
            p == IF ignorecase THEN Lower(full) ELSE full
            t == IF ignorecase THEN Lower(text) ELSE text
        IN  IF pattern.end THEN t = p ELSE StartsWith(t, p)

\* the (is_allowed, error_message) pairs _is_url_allowed returns
Allowed == [allowed |-> TRUE, error |-> "None"]
Rejected(error) == [allowed |-> FALSE, error |-> error]

\* "hostname in allowed_hosts"
HostInList(hostname, hosts) == hostname \in hosts

\* variant: the default blocklist is consulted before ALLOWED_HOSTS
is_url_allowed_DenylistFirst(url, allowedHosts) ==
    IF UrlParseRaises(url) THEN Rejected("InvalidURL: exception")
    ELSE LET hostname == Hostname(url) IN
        IF hostname = <<>> THEN Rejected("InvalidURL: no hostname")
        ELSE IF \E i \in 1..Len(blocked_patterns) : ReMatch(blocked_patterns[i], hostname, TRUE)
        THEN Rejected("HostBlocked")
        ELSE IF allowedHosts.configured /\ ~HostInList(hostname, allowedHosts.hosts)
        THEN Rejected("HostNotAllowed")
        ELSE Allowed

is_url_allowed(url, allowedHosts) ==
    IF UrlParseRaises(url) THEN Rejected("InvalidURL: exception")
    ELSE LET hostname == Hostname(url) IN
        IF hostname = <<>> THEN Rejected("InvalidURL: no hostname")
        ELSE IF allowedHosts.configured
        THEN (IF ~HostInList(hostname, allowedHosts.hosts)
              THEN Rejected("HostNotAllowed") ELSE Allowed)
        ELSE IF \E i \in 1..Len(blocked_patterns) : ReMatch(blocked_patterns[i], hostname, TRUE)
        THEN Rejected("HostBlocked")
        ELSE Allowed


(***************************************************************************)
(* Values of the variables before anything has run                         *)
(***************************************************************************)
NoVerdict == [allowed |-> FALSE, error |-> "not called"]
NoEnvelope == [kind |-> "none"]
NoCaller == [COOKIES |-> <<>>, META |-> <<>>]
NoAuth == <<>>
NoKwargs == <<>>
NoResult == [kind |-> "none"]
EmptyDict == <<>>

ProxyIdle ==
    /\ pc = "idle"
    /\ envelope = NoEnvelope
    /\ caller = NoCaller
    /\ method = ""
    /\ headers = EmptyDict
    /\ cookies = EmptyDict
    /\ auth = NoAuth
    /\ kwargs = NoKwargs
    /\ steps = <<>>
    /\ calls = <<>>
    /\ outcomes = <<>>
    /\ result = NoResult

CheckIdle == chk_url = EmptyUrl /\ chk_verdict = NoVerdict

FilterIdle == exclude_patterns = <<>> /\ flt_input = <<>> /\ flt_output = <<>>

NoCallback == [kind |-> "not called"]
NoTree == [root |-> <<>>, nodes |-> <<>>]
NoOutput == [kind |-> "none"]
NormalizerIdle == nrm_op = "none" /\ nrm_input = <<>> /\ nrm_output = <<>>
IntrospectIdle == hdl_callback = NoCallback /\ hdl_methods = <<>>
CollectorIdle ==
    /\ url_config = "<None>"
    /\ urlconf_arg = "<None>"
    /\ urlconf = "<None>"
    /\ tree = NoTree
    /\ col_output = NoOutput
NoCall == [op |-> "none"]
SerializerIdle == ser_view_class = NoCallback /\ ser_info = NoOutput
ApiIdle ==
    /\ self_url_patterns = <<>>
    /\ api_call = NoCall
    /\ api_output = NoOutput
    /\ traversals = 0
InventoryIdle ==
    NormalizerIdle /\ IntrospectIdle /\ CollectorIdle /\ SerializerIdle /\ ApiIdle

(***************************************************************************)
(* Specification SpecUrlAllowed: _is_url_allowed on sample URLs under      *)
(* sample ALLOWED_HOSTS settings                                           *)
(***************************************************************************)
H_example == <<"e","x","a","m","p","l","e",".","c","o","m">>
H_api == <<"a","p","i",".","e","x","a","m","p","l","e",".","c","o","m">>
H_other == <<"o","t","h","e","r",".","c","o","m">>
H_localhost == <<"l","o","c","a","l","h","o","s","t">>
H_metadata == <<"1","6","9",".","2","5","4",".","1","6","9",".","2","5","4">>

SampleNetlocs == {
    <<>>, <<":","8","0">>, <<"[",":",":","1">>,
    H_localhost, <<"L","o","c","a","l","H","o","s","t",":","8","0","0","0">>, <<"L","O","C","A","L","H","O","S","T">>, <<"l","o","c","a","l","h","o","s","t",".","e","v","i","l",".","c","o","m">>,
    <<"1","2","7",".","0",".","0",".","1">>, <<"1","2","7",".","2","5","5",".","0",".","9">>, <<"1","0",".","0",".","0",".","1">>, <<"u","s","e","r","@","1","0",".","0",".","0",".","1",":","9","9">>,
    <<"1","7","2",".","1","5",".","0",".","1">>, <<"1","7","2",".","1","6",".","0",".","1">>, <<"1","7","2",".","2","0",".","1",".","1">>, <<"1","7","2",".","3","1",".","9",".","9">>, <<"1","7","2",".","3","2",".","0",".","1">>,
    <<"1","9","2",".","1","6","8",".","1",".","1">>, <<"1","9","2",".","1","6","9",".","1",".","1">>, H_metadata, <<"1","6","9",".","2","5","3",".","0",".","1">>, <<"8",".","8",".","8",".","8">>,
    <<"1","1",".","0",".","0",".","1">>, <<"1",".","1","0",".","0",".","1">>,
    H_example, <<"E","X","A","M","P","L","E",".","c","o","m">>, H_api, H_other, <<"1","0",".","e","x","a","m","p","l","e",".","c","o","m">>,
    <<"[",":",":","1","]">>, <<"[",":",":","1","]",":","8","0","0","0">>, <<"[","f","e","8","0",":",":","1","]">>, <<"[","F","E","8","0",":",":","1","]">>, <<"[","f","e","9","0",":",":","1","]">>, <<"[","f","e","b","f",":",":","1","]">>,
    <<"[","f","e","c","0",":",":","1","]">>, <<"[","f","c","0","0",":",":","1","]">>, <<"[","f","c","0","1",":",":","1","]">>, <<"[","f","d","0","0",":",":","1","]",":","8","0">>, <<"[","f","d","f","f",":",":","1","]">>,
    <<"[","f","e","0","0",":",":","1","]">>, <<"[","2","0","0","1",":","d","b","8",":",":","1","]">> }

SampleUrls ==
    {Url("http", n, "/api/") : n \in SampleNetlocs} \cup
    {EmptyUrl, Url("", <<>>, "not-a-url"), Url("", <<>>, "/relative/path")}

SampleAllowedHosts == {
    NotConfigured,
    Configured({}),
    Configured({H_example}),
    Configured({H_example, H_api}),
    Configured({H_localhost, H_metadata}),
    Configured({<<"E","x","a","m","p","l","e",".","c","o","m">>}) }

InitUrlAllowed ==
    /\ enable_testing = TRUE
    /\ requests_installed = TRUE
    /\ allowed_hosts \in SampleAllowedHosts
    /\ CheckIdle
    /\ ProxyIdle
    /\ FilterIdle
    /\ InventoryIdle

\* one call _is_url_allowed(url)
CheckUrl ==
    \E url \in SampleUrls :
        /\ chk_url' = url
        /\ chk_verdict' = is_url_allowed(url, allowed_hosts)
        /\ UNCHANGED <<settingsVars, proxyVars, fltVars, invVars>>

NextUrlAllowed == CheckUrl

SpecUrlAllowed == InitUrlAllowed /\ [][NextUrlAllowed]_vars

\* _is_url_allowed has been called on a URL that parses and has a hostname
Checked == chk_verdict # NoVerdict
CheckedHost == Checked /\ ~UrlParseRaises(chk_url) /\ Hostname(chk_url) # <<>>

(***************************************************************************)
(* Address classes, read from the text of a hostname                       *)
(***************************************************************************)
RECURSIVE SplitOn(_, _)
SplitOn(c, s) ==
    LET i == IndexOf(c, s)
    IN  IF i = 0 THEN <<s>> ELSE <<Before(s, i)>> \o SplitOn(c, After(s, i))

CharsIn(s, alphabet) == \A i \in 1..Len(s) : \E k \in 1..Len(alphabet) : alphabet[k] = s[i]

DigitValue(c, alphabet) == (CHOOSE k \in 1..Len(alphabet) : alphabet[k] = c) - 1

RECURSIVE NumberIn(_, _)
NumberIn(s, alphabet) ==
    IF s = <<>> THEN 0
    ELSE NumberIn(Before(s, Len(s)), alphabet) * Len(alphabet)
         + DigitValue(s[Len(s)], alphabet)

\* a dotted quad of four decimal numbers 0..255
IsIPv4(h) ==
    LET parts == SplitOn(".", h)
    IN  /\ Len(parts) = 4
        /\ \A i \in 1..4 : /\ parts[i] # <<>>
                           /\ CharsIn(parts[i], DigitChars)
                           /\ NumberIn(parts[i], DigitChars) <= 255

Octet(h, i) == NumberIn(SplitOn(".", h)[i], DigitChars)

\* colon-separated groups of hexadecimal digits
IsIPv6(h) ==
    /\ IndexOf(":", h) > 0
    /\ CharsIn(h, HexChars \o <<":">>)

\* the first 16 bits of an IPv6 address
FirstHextet(h) == NumberIn(SplitOn(":", h)[1], HexChars)

\* localhost, 127.*, 10.*, 172.16-31.*, 192.168.*, 169.254.*, ::1, fe80::/10, fc00::/7
InternalHost(h) ==
    \/ Lower(h) = H_localhost
    \/ /\ IsIPv4(h)
       /\ \/ Octet(h, 1) = 127
          \/ Octet(h, 1) = 10
          \/ Octet(h, 1) = 172 /\ Octet(h, 2) \in 16..31
          \/ Octet(h, 1) = 192 /\ Octet(h, 2) = 168
          \/ Octet(h, 1) = 169 /\ Octet(h, 2) = 254
    \/ /\ IsIPv6(Lower(h))
       /\ \/ Lower(h) = <<":",":","1">>
          \/ FirstHextet(Lower(h)) \in 65152..65215
          \/ FirstHextet(Lower(h)) \in 64512..65023

\* C2: with ALLOWED_HOSTS not configured, a URL with a hostname is rejected
\* with HostBlocked when its host is localhost, in 127.*, 10.*, 172.16-31.*,
\* 192.168.*, 169.254.*, ::1, fe80::/10 or fc00::/7, and accepted otherwise.
C2_DefaultDenylist ==
    (CheckedHost /\ ~allowed_hosts.configured) =>
        IF InternalHost(Hostname(chk_url))
        THEN chk_verdict = Rejected("HostBlocked")
        ELSE chk_verdict = Allowed

\* C3: with ALLOWED_HOSTS configured, a URL is accepted exactly when its
\* hostname is in the list, whatever the default denylist says of it; any
\* other URL is rejected, with HostNotAllowed when it has a hostname.
C3_AllowListReplacesDenylist ==
    (Checked /\ allowed_hosts.configured) =>
        /\ chk_verdict.allowed <=>
              (~UrlParseRaises(chk_url) /\ Hostname(chk_url) \in allowed_hosts.hosts)
        /\ (CheckedHost /\ ~chk_verdict.allowed) => chk_verdict = Rejected("HostNotAllowed")
        /\ chk_verdict.error # "HostBlocked"

\* C3 witness: localhost, on the default denylist, accepted because listed
C3_Witness_DenylistedHostAccepted ==
    /\ Checked
    /\ allowed_hosts.configured
    /\ InternalHost(Hostname(chk_url))
    /\ chk_verdict = Allowed


(***************************************************************************)
(* UrlListInterface._filter_excluded_urls                                  *)
(***************************************************************************)
\* pattern.lstrip('/')
RECURSIVE LStripSlash(_)
LStripSlash(s) == IF s # <<>> /\ Head(s) = "/" THEN LStripSlash(Tail(s)) ELSE s

\* variant: only the first exclusion pattern is tried
ExcludedFrom_FirstOnly(excl, k, pattern_to_match) ==
    k <= Len(excl) /\ ReMatch(excl[k], pattern_to_match, FALSE)

\* the inner loop: excluded is set at the first exclusion pattern that matches
RECURSIVE ExcludedFrom(_, _, _)
ExcludedFrom(excl, k, pattern_to_match) ==
    IF k > Len(excl) THEN FALSE
    ELSE IF ReMatch(excl[k], pattern_to_match, FALSE) THEN TRUE
    ELSE ExcludedFrom(excl, k + 1, pattern_to_match)

\* the outer loop, from the i-th descriptor on, with the list built so far
RECURSIVE FilterFrom(_, _, _, _)
FilterFrom(url_patterns, excl, i, filtered) ==
    IF i > Len(url_patterns) THEN filtered
    ELSE LET url == url_patterns[i]
             excluded == ExcludedFrom(excl, 1, LStripSlash(url.pattern))
         IN  FilterFrom(url_patterns, excl, i + 1,
                        IF ~excluded THEN Append(filtered, url) ELSE filtered)

filter_excluded_urls(url_patterns, excl) ==
    IF excl = <<>> THEN url_patterns
    ELSE FilterFrom(url_patterns, excl, 1, <<>>)

(***************************************************************************)
(* Specification SpecFilter: _filter_excluded_urls on lists of sample      *)
(* descriptors under sample EXCLUDE_URLS settings                          *)
(***************************************************************************)
MaxUrls == 3
MaxExclude == 2

Descriptor(pattern, name) == [pattern |-> pattern, name |-> name]

SampleDescriptors == {
    Descriptor(<<"/">>, "home"),
    Descriptor(<<"/","a","d","m","i","n","/">>, "admin:index"),
    Descriptor(<<"/","a","d","m","i","n","/","l","o","g","i","n","/">>, "admin:login"),
    Descriptor(<<"/","a","p","i","/","a","d","m","i","n","/">>, "api:admin"),
    Descriptor(<<"/","/","a","d","m","i","n","/">>, "None") }

\* ^admin/   ^api/   ^admin/$   ^/admin/
SampleExcludes == {
    Pattern(<<"a","d","m","i","n","/">>, {}, <<>>, FALSE),
    Pattern(<<"a","p","i","/">>, {}, <<>>, FALSE),
    Pattern(<<"a","d","m","i","n","/">>, {}, <<>>, TRUE),
    Pattern(<<"/","a","d","m","i","n","/">>, {}, <<>>, FALSE) }

SeqsUpTo(S, n) == UNION {[1..k -> S] : k \in 0..n}

InitFilter ==
    /\ enable_testing = TRUE
    /\ requests_installed = TRUE
    /\ allowed_hosts = NotConfigured
    /\ CheckIdle
    /\ ProxyIdle
    /\ exclude_patterns \in SeqsUpTo(SampleExcludes, MaxExclude)
    /\ flt_input = <<>>
    /\ flt_output = <<>>
    /\ InventoryIdle

\* one call self._filter_excluded_urls(url_patterns)
FilterExcludedUrls ==
    \E url_patterns \in SeqsUpTo(SampleDescriptors, MaxUrls) :
        /\ flt_input = <<>>
        /\ flt_input' = url_patterns
        /\ flt_output' = filter_excluded_urls(url_patterns, exclude_patterns)
        /\ UNCHANGED <<settingsVars, chkVars, proxyVars, exclude_patterns, invVars>>

\* the caller is done with the list; the instance keeps its exclude_patterns
FilterDone ==
    /\ flt_input # <<>>
    /\ flt_input' = <<>>
    /\ flt_output' = <<>>
    /\ UNCHANGED <<settingsVars, chkVars, proxyVars, exclude_patterns, invVars>>

NextFilter == FilterExcludedUrls \/ FilterDone

SpecFilter == InitFilter /\ [][NextFilter]_vars

\* some exclusion pattern matches the descriptor's pattern, leading '/' stripped
MatchesDenylist(d) ==
    \E k \in 1..Len(exclude_patterns) :
        ReMatch(exclude_patterns[k], LStripSlash(d.pattern), FALSE)

KeptByDenylist(d) == ~MatchesDenylist(d)

\* C10: the list returned is exactly the input descriptors that no exclusion
\* pattern matches, unaltered and in their input order; with no exclusion
\* pattern it is the input.
C10_FilterIsExactSubsequence ==
    /\ flt_output = SelectSeq(flt_input, KeptByDenylist)
    /\ exclude_patterns = <<>> => flt_output = flt_input

\* C10 witness: of three descriptors the middle one is dropped and the other
\* two are kept in order, under a two-pattern denylist
C10_Witness_MiddleDropped ==
    /\ Len(exclude_patterns) = 2
    /\ Len(flt_input) = 3
    /\ MatchesDenylist(flt_input[2])
    /\ flt_input[1] # flt_input[3]
    /\ flt_output = <<flt_input[1], flt_input[3]>>


(***************************************************************************)
(* execute_request: values                                                 *)
(***************************************************************************)
\* Python's None, where the code reads a text that may be missing
None == "<None>"

\* "if x:" for a text that may be None
Truthy(x) == x # None /\ x # ""

\* d.get(key, default) on a dict (a function on its keys)
Get(d, key, default) == IF key \in DOMAIN d THEN d[key] ELSE default

\* d[key] = value
DictSet(d, key, value) == (key :> value) @@ d

\* data.get("timeout", 30)
DefaultTimeout == 30
\* timeout=5 of the CSRF fetch
CsrfTimeout == 5

\* django_settings.SESSION_COOKIE_NAME, django_settings.CSRF_COOKIE_NAME
SESSION_COOKIE_NAME == "sessionid"
CSRF_COOKIE_NAME == "csrftoken"

\* str.upper() on the method names the model sends
Upper(m) ==
    CASE m = "get" -> "GET"
      [] m = "post" -> "POST"
      [] m = "put" -> "PUT"
      [] m = "patch" -> "PATCH"
      [] m = "delete" -> "DELETE"
      [] m = "head" -> "HEAD"
      [] m = "options" -> "OPTIONS"
      [] m = "trace" -> "TRACE"
      [] OTHER -> m

\* json.loads on the texts the model sends: the value a JSON text parses to
JsonParse == ("[1, 2]" :> "list(1, 2)") @@ ("17" :> "int(17)") @@ ("{}" :> "dict()")

\* whether json.loads(text) / response.json() succeeds
IsJson(text) == text \in DOMAIN JsonParse

\* a "body" of the envelope that is a JSON object, not a text
DictBody == "dict(a=1)"

\* whether json.loads takes the value: it raises TypeError on what is no text
IsText(body) == body # DictBody

\* An exception is the set of the classes it is an instance of.
ReadTimeout == {"Timeout", "RequestException", "Exception"}
ConnectTimeout == {"ConnectionError", "Timeout", "RequestException", "Exception"}
ConnectionError == {"ConnectionError", "RequestException", "Exception"}
TooManyRedirects == {"RequestException", "Exception"}
OtherError == {"Exception"}
JSONDecodeError == {"JSONDecodeError", "ValueError", "Exception"}
AttributeError == {"AttributeError", "Exception"}
TypeError == {"TypeError", "Exception"}

\* the JsonResponse of an error, and of a probe's response
Failure(status, error) == [kind |-> "failure", status |-> status, error |-> error]

\* variant: the ConnectionError clause comes before the Timeout clause
ExceptClauses_ConnectionFirst == <<
    [class |-> "ConnectionError", status |-> 502, error |-> "Connection error"],
    [class |-> "Timeout", status |-> 408, error |-> "Request timed out"],
    [class |-> "RequestException", status |-> 500, error |-> "Request failed"],
    [class |-> "JSONDecodeError", status |-> 400, error |-> "Invalid JSON in request body"],
    [class |-> "Exception", status |-> 500, error |-> "str(e)"] >>

\* the except clauses of execute_request, in source order
ExceptClauses == <<
    [class |-> "Timeout", status |-> 408, error |-> "Request timed out"],
    [class |-> "ConnectionError", status |-> 502, error |-> "Connection error"],
    [class |-> "RequestException", status |-> 500, error |-> "Request failed"],
    [class |-> "JSONDecodeError", status |-> 400, error |-> "Invalid JSON in request body"],
    [class |-> "Exception", status |-> 500, error |-> "str(e)"] >>

\* the response of the first except clause that catches the exception
HandleException(exc) ==
    LET i == CHOOSE i \in 1..Len(ExceptClauses) :
                 /\ ExceptClauses[i].class \in exc
                 /\ \A j \in 1..(i - 1) : ExceptClauses[j].class \notin exc
    IN  Failure(ExceptClauses[i].status, ExceptClauses[i].error)

\* int(response.elapsed.total_seconds() * 1000) for an elapsed time of us
\* microseconds.  The product is a binary floating-point number: on a whole
\* number of milliseconds it can fall just below it (1.001 * 1000 is
\* 1000.9999999999999), and int() then gives one less.
ElapsedMs(us) ==
    {us \div 1000} \cup (IF us % 1000 = 0 /\ us > 0 THEN {us \div 1000 - 1} ELSE {})

\* variant: the body is always returned as text
Normalized_TextOnly(response, ms) ==
    [kind |-> "response",
     status_code |-> response.status_code,
     status_text |-> response.reason,
     headers |-> response.headers,
     body |-> response.text,
     is_json |-> FALSE,
     elapsed_ms |-> ms,
     url |-> response.url]

\* the JsonResponse built from a response, with elapsed_ms as computed
Normalized(response, ms) ==
    [kind |-> "response",
     status_code |-> response.status_code,
     status_text |-> response.reason,
     headers |-> response.headers,
     body |-> IF IsJson(response.text) THEN JsonParse[response.text] ELSE response.text,
     is_json |-> IsJson(response.text),
     elapsed_ms |-> ms,
     url |-> response.url]


(***************************************************************************)
(* execute_request: the handler, stage by stage (last stage first)         *)
(***************************************************************************)
\* the values of the handler's variables after a step
Set(p, env, clr, m, h, k, a, kw, st, cl, oc, r) ==
    /\ pc' = p
    /\ envelope' = env
    /\ caller' = clr
    /\ method' = m
    /\ headers' = h
    /\ cookies' = k
    /\ auth' = a
    /\ kwargs' = kw
    /\ steps' = st
    /\ calls' = cl
    /\ outcomes' = oc
    /\ result' = r

\* the fields read from the envelope
EnvUrl(env) == Get(env.data, "url", EmptyUrl)
EnvMethod(env) == Upper(Get(env.data, "method", "GET"))
EnvHeaders(env) == Get(env.data, "headers", EmptyDict)
EnvBody(env) == Get(env.data, "body", "")
EnvAuthType(env) == Get(env.data, "auth_type", None)
EnvAuthValue(env) == Get(env.data, "auth_value", <<>>)
EnvTimeout(env) == Get(env.data, "timeout", DefaultTimeout)

\* a return before the request is assembled
ReturnEarly(env, clr, st, r) ==
    Set("done", env, clr, "", EmptyDict, EmptyDict, NoAuth, NoKwargs, st, <<>>, <<>>, r)

\* "Prepare request kwargs" to "Execute the request": the body is attached
\* for POST, PUT and PATCH, and http_requests.request(**request_kwargs) is
\* called; json.loads(body) on a body that is no text raises TypeError, which
\* "except json.JSONDecodeError" lets through to the handler's except clauses
SendProbe(env, clr, m, h, k, a, st, cl, oc) ==
    LET body == EnvBody(env)
        sendsBody == body # "" /\ m \in {"POST", "PUT", "PATCH"}
        h2 == IF sendsBody /\ IsJson(body) /\ "Content-Type" \notin DOMAIN h
              THEN DictSet(h, "Content-Type", "application/json")
              ELSE h
        kw0 == [method |-> m, url |-> EnvUrl(env), headers |-> h2,
                timeout |-> EnvTimeout(env), allow_redirects |-> TRUE]
               @@ (IF DOMAIN k # {} THEN "cookies" :> k ELSE EmptyDict)
        kw == kw0
              @@ (IF sendsBody THEN "data" :> body ELSE EmptyDict)
              @@ (IF a # NoAuth THEN "auth" :> a ELSE EmptyDict)
    IN  IF sendsBody /\ ~IsText(body)
        THEN Set("done", env, clr, m, h, k, a, kw0, st, cl, oc, HandleException(TypeError))
        ELSE Set("probe", env, clr, m, h2, k, a, kw, Append(st, "probe"),
                 Append(cl, [kind |-> "probe", kwargs |-> kw]), oc, NoResult)

\* variant: the CSRF fetch is given the operator's timeout
CsrfFetch_OperatorTimeout(env, k) ==
    [kind |-> "preflight",
     kwargs |-> [method |-> "GET",
                 url |-> Url(EnvUrl(env).scheme, EnvUrl(env).netloc, ""),
                 cookies |-> k,
                 timeout |-> EnvTimeout(env),
                 allow_redirects |-> TRUE]]

\* http_requests.get(base_url, cookies=cookies, timeout=5, allow_redirects=True)
CsrfFetch(env, k) ==
    [kind |-> "preflight",
     kwargs |-> [method |-> "GET",
                 url |-> Url(EnvUrl(env).scheme, EnvUrl(env).netloc, ""),
                 cookies |-> k,
                 timeout |-> CsrfTimeout,
                 allow_redirects |-> TRUE]]

\* "Forward CSRF cookie and add CSRF token for write operations", up to the
\* CSRF fetch: the headers and cookies, and whether the fetch is needed
CsrfAssembly(m, clr, h, k) ==
    LET csrf_cookie_value == Get(clr.COOKIES, CSRF_COOKIE_NAME, None)
        meta == Get(clr.META, "CSRF_COOKIE", None)
        csrf_token == IF ~Truthy(meta) THEN csrf_cookie_value ELSE meta
        k2 == IF Truthy(csrf_cookie_value)
              THEN DictSet(k, CSRF_COOKIE_NAME, csrf_cookie_value) ELSE k
    IN  IF m \in {"POST", "PUT", "PATCH", "DELETE"}
        THEN IF Truthy(csrf_token)
             THEN [headers |-> DictSet(h, "X-CSRFToken", csrf_token),
                   cookies |-> k2, auth |-> NoAuth, preflight |-> FALSE]
             ELSE [headers |-> h, cookies |-> k, auth |-> NoAuth, preflight |-> TRUE]
        ELSE [headers |-> h, cookies |-> k2, auth |-> NoAuth, preflight |-> FALSE]

\* "Build authentication and cookies"
AuthAssembly(env, clr, m, h) ==
    LET auth_type == EnvAuthType(env)
        auth_value == EnvAuthValue(env)
        session_id == Get(clr.COOKIES, SESSION_COOKIE_NAME, None)
        plain == [headers |-> h, cookies |-> EmptyDict, auth |-> NoAuth, preflight |-> FALSE]
    IN  IF auth_type = "session"
        THEN CsrfAssembly(m, clr, h,
                 IF Truthy(session_id)
                 THEN DictSet(EmptyDict, SESSION_COOKIE_NAME, session_id)
                 ELSE EmptyDict)
        ELSE IF auth_type = "session_cookie" /\ auth_value # <<>>
        THEN CsrfAssembly(m, clr, h, DictSet(EmptyDict, SESSION_COOKIE_NAME, auth_value))
        ELSE IF Truthy(auth_type) /\ auth_value # <<>>
        THEN CASE auth_type = "basic" ->
                    IF IndexOf(":", auth_value) > 0
                    THEN [plain EXCEPT !.auth =
                             <<Before(auth_value, IndexOf(":", auth_value)),
                               After(auth_value, IndexOf(":", auth_value))>>]
                    ELSE plain
               [] auth_type = "bearer" ->
                    [plain EXCEPT !.headers = DictSet(h, "Authorization", <<"Bearer", auth_value>>)]
               [] auth_type = "token" ->
                    [plain EXCEPT !.headers = DictSet(h, "Authorization", <<"Token", auth_value>>)]
               [] OTHER -> plain
        ELSE plain

\* from "Build authentication and cookies" to the first outbound call
Assemble(env, clr) ==
    LET m == EnvMethod(env)
        a == AuthAssembly(env, clr, m, EnvHeaders(env))
    IN  IF a.preflight
        THEN Set("preflight", env, clr, m, a.headers, a.cookies, a.auth, NoKwargs,
                 <<"validate", "auth", "preflight">>, <<CsrfFetch(env, a.cookies)>>,
                 <<>>, NoResult)
        ELSE SendProbe(env, clr, m, a.headers, a.cookies, a.auth,
                       <<"validate", "auth">>, <<>>, <<>>)

\* variant: only the empty URL is refused; _is_url_allowed is not called
Validate_EmptyOnly(env, clr) ==
    IF UrlIsEmpty(EnvUrl(env))
    THEN ReturnEarly(env, clr, <<>>, Failure(400, "URL is required"))
    ELSE Assemble(env, clr)

\* "Validate URL": the empty URL, then _is_url_allowed
Validate(env, clr) ==
    IF UrlIsEmpty(EnvUrl(env))
    THEN ReturnEarly(env, clr, <<>>, Failure(400, "URL is required"))
    ELSE LET verdict == is_url_allowed(EnvUrl(env), allowed_hosts)
         IN  IF ~verdict.allowed
             THEN ReturnEarly(env, clr, <<"validate">>, Failure(403, verdict.error))
             ELSE Assemble(env, clr)

\* json.loads(request.body) and the data.get(...) calls
ParseEnvelope(env, clr) ==
    CASE env.kind = "NotJson" ->
            ReturnEarly(env, clr, <<>>, HandleException(JSONDecodeError))
      [] env.kind = "NonObject" ->
            ReturnEarly(env, clr, <<>>, HandleException(AttributeError))
      [] OTHER -> Validate(env, clr)

\* import requests as http_requests
ImportRequests(env, clr) ==
    IF ~requests_installed
    THEN ReturnEarly(env, clr, <<>>, Failure(500, "requests library is required"))
    ELSE ParseEnvelope(env, clr)

\* variant: the envelope is parsed before ENABLE_TESTING is looked at
CheckEnabled_AfterParse(env, clr) ==
    IF ~enable_testing /\ env.kind = "Object"
    THEN ReturnEarly(env, clr, <<>>, Failure(403, "URL testing is disabled"))
    ELSE ImportRequests(env, clr)

\* "Check if testing is enabled FIRST"
CheckEnabled(env, clr) ==
    IF ~enable_testing
    THEN ReturnEarly(env, clr, <<>>, Failure(403, "URL testing is disabled"))
    ELSE ImportRequests(env, clr)


\* the CSRF fetch returned or raised: a csrftoken cookie in the response is
\* put into the cookies and the X-CSRFToken header; "except Exception: pass"
CsrfFetched(outcome) ==
    LET fresh == outcome.kind = "response" /\ CSRF_COOKIE_NAME \in DOMAIN outcome.cookies
        csrf_token == outcome.cookies[CSRF_COOKIE_NAME]
    IN  SendProbe(envelope, caller, method,
                  IF fresh THEN DictSet(headers, "X-CSRFToken", csrf_token) ELSE headers,
                  IF fresh THEN DictSet(cookies, CSRF_COOKIE_NAME, csrf_token) ELSE cookies,
                  auth, steps, calls, Append(outcomes, outcome))

\* http_requests.request(**request_kwargs) returned a response
ProbeResponded(outcome) ==
    \E ms \in ElapsedMs(outcome.response.elapsed_us) :
        Set("done", envelope, caller, method, headers, cookies, auth, kwargs, steps,
            calls, Append(outcomes, outcome), Normalized(outcome.response, ms))

\* the number of outbound calls of one kind made so far
CallCount(kind) == Cardinality({i \in 1..Len(calls) : calls[i].kind = kind})

\* variant: the primary probe is sent once more after it raised
ProbeRaised_Retry(outcome) ==
    IF CallCount("probe") < 2
    THEN Set("probe", envelope, caller, method, headers, cookies, auth, kwargs,
             Append(steps, "probe"), Append(calls, calls[Len(calls)]),
             Append(outcomes, outcome), NoResult)
    ELSE Set("done", envelope, caller, method, headers, cookies, auth, kwargs, steps,
             calls, Append(outcomes, outcome), HandleException(outcome.exc))

\* http_requests.request(**request_kwargs) raised
ProbeRaised(outcome) ==
    Set("done", envelope, caller, method, headers, cookies, auth, kwargs, steps,
        calls, Append(outcomes, outcome), HandleException(outcome.exc))

(***************************************************************************)
(* Specification Spec: invocations of execute_request on sample requests,  *)
(* with every way each outbound call can end                               *)
(***************************************************************************)
U_example == Url("http", H_example, "/api/test/")
U_localhost == Url("http", <<"l","o","c","a","l","h","o","s","t",":","8","0","0","0">>, "/")
U_metadata == Url("http", H_metadata, "/latest/meta-data/")
U_nohost == Url("", <<>>, "not-a-url")
U_badipv6 == Url("http", <<"[",":",":","1">>, "/")

SampleSettings ==
    [enable_testing : BOOLEAN,
     allowed_hosts : {NotConfigured, Configured({H_example, H_localhost})},
     requests_installed : BOOLEAN]

\* the keys an envelope may carry, each present or not
UrlPart == {EmptyDict} \cup
    {"url" :> u : u \in {EmptyUrl, U_nohost, U_badipv6, U_example, U_localhost, U_metadata}}
MethodPart == {EmptyDict, "method" :> "post", "method" :> "DELETE"}
HeadersPart == {EmptyDict,
    "headers" :> (("X-CSRFToken" :> "operator-token") @@ ("Content-Type" :> "text/plain")),
    "headers" :> ("content-type" :> "text/plain")}
BodyPart == {EmptyDict, "body" :> "[1, 2]", "body" :> "name=x", "body" :> DictBody}
AuthPart == {
    EmptyDict,
    "auth_type" :> "session",
    "auth_type" :> "session_cookie",
    ("auth_type" :> "session_cookie") @@ ("auth_value" :> <<"s","i","d">>),
    ("auth_type" :> "basic") @@ ("auth_value" :> <<"u",":","p">>),
    ("auth_type" :> "basic") @@ ("auth_value" :> <<"u","p">>),
    ("auth_type" :> "bearer") @@ ("auth_value" :> <<"t","o","k">>),
    ("auth_type" :> "token") @@ ("auth_value" :> <<"t","o","k">>) }
TimeoutPart == {EmptyDict, "timeout" :> 10}

SampleEnvelopes ==
    {[kind |-> "NotJson", data |-> EmptyDict], [kind |-> "NonObject", data |-> EmptyDict]}
    \cup
    {[kind |-> "Object", data |-> u @@ m @@ h @@ b @@ a @@ t] :
        u \in UrlPart, m \in MethodPart, h \in HeadersPart, b \in BodyPart,
        a \in AuthPart, t \in TimeoutPart}

SampleCallers ==
    [COOKIES : {EmptyDict,
                SESSION_COOKIE_NAME :> "caller-session",
                (SESSION_COOKIE_NAME :> "caller-session") @@ (CSRF_COOKIE_NAME :> "caller-csrf")},
     META : {EmptyDict, "CSRF_COOKIE" :> "meta-csrf"}]

\* how the CSRF fetch can end
SamplePreflightOutcomes == {
    [kind |-> "response", cookies |-> CSRF_COOKIE_NAME :> "fresh-csrf"],
    [kind |-> "response", cookies |-> EmptyDict],
    [kind |-> "raise", exc |-> ReadTimeout],
    [kind |-> "raise", exc |-> ConnectionError],
    [kind |-> "raise", exc |-> OtherError] }

Response(code, reason, text, us, url) ==
    [status_code |-> code, reason |-> reason, headers |-> EmptyDict, text |-> text,
     elapsed_us |-> us, url |-> url]

\* how the primary probe can end
SampleProbeOutcomes == {
    [kind |-> "response", response |-> Response(200, "OK", "[1, 2]", 150000, U_example)],
    [kind |-> "response", response |-> Response(404, "Not Found", "<html>", 999, U_example)],
    [kind |-> "response",
     response |-> Response(500, "Internal Server Error", "{}", 1001000, U_example)],
    [kind |-> "response", response |-> Response(200, "OK", "17", 0, U_localhost)],
    [kind |-> "raise", exc |-> ReadTimeout],
    [kind |-> "raise", exc |-> ConnectTimeout],
    [kind |-> "raise", exc |-> ConnectionError],
    [kind |-> "raise", exc |-> TooManyRedirects],
    [kind |-> "raise", exc |-> OtherError] }

Init ==
    /\ \E s \in SampleSettings :
          /\ enable_testing = s.enable_testing
          /\ allowed_hosts = s.allowed_hosts
          /\ requests_installed = s.requests_installed
    /\ CheckIdle
    /\ ProxyIdle
    /\ FilterIdle
    /\ InventoryIdle

\* a POST to execute_request arrives and runs up to its first outbound call
\* or its return
Begin ==
    /\ pc = "idle"
    /\ \E env \in SampleEnvelopes, clr \in SampleCallers : CheckEnabled(env, clr)
    /\ UNCHANGED <<settingsVars, chkVars, fltVars, invVars>>

\* the CSRF fetch ends; the handler goes on to the primary probe
PreflightReturn ==
    /\ pc = "preflight"
    /\ \E outcome \in SamplePreflightOutcomes : CsrfFetched(outcome)
    /\ UNCHANGED <<settingsVars, chkVars, fltVars, invVars>>

\* the primary probe ends; the handler returns
ProbeReturn ==
    /\ pc = "probe"
    /\ \E outcome \in SampleProbeOutcomes :
          IF outcome.kind = "response" THEN ProbeResponded(outcome) ELSE ProbeRaised(outcome)
    /\ UNCHANGED <<settingsVars, chkVars, fltVars, invVars>>

\* the response has been sent; the next request starts afresh
Finish ==
    /\ pc = "done"
    /\ Set("idle", NoEnvelope, NoCaller, "", EmptyDict, EmptyDict, NoAuth, NoKwargs,
           <<>>, <<>>, <<>>, NoResult)
    /\ UNCHANGED <<settingsVars, chkVars, fltVars, invVars>>

Next == Begin \/ PreflightReturn \/ ProbeReturn \/ Finish

Spec == Init /\ [][Next]_vars


(***************************************************************************)
(* Properties of execute_request                                           *)
(***************************************************************************)
Invoked == pc # "idle"
Returned == pc = "done"
IsObject == envelope.kind = "Object"

\* the handler got past the disablement gate and the import
Running == Invoked /\ enable_testing /\ requests_installed

\* the i-th outbound call was the primary probe and has ended
ProbeEnded(i) == i \in 1..Len(outcomes) /\ calls[i].kind = "probe"

\* the CSRF fetch has ended without yielding a CSRF cookie
PreflightFailed ==
    /\ outcomes # <<>>
    /\ calls[1].kind = "preflight"
    /\ \/ outcomes[1].kind = "raise"
       \/ /\ outcomes[1].kind = "response"
          /\ CSRF_COOKIE_NAME \notin DOMAIN outcomes[1].cookies

\* C1: with ENABLE_TESTING false every invocation, whatever its input, returns
\* the 403 "disabled" failure, having validated no URL and made no outbound call.
C1_DisabledGate ==
    (Invoked /\ ~enable_testing) =>
        /\ Returned
        /\ result = Failure(403, "URL testing is disabled")
        /\ steps = <<>>
        /\ calls = <<>>

\* C1 witness: disabled, and the request names a host the policy allows
C1_Witness_DisabledAllowedHost ==
    /\ ~enable_testing
    /\ Returned
    /\ IsObject
    /\ EnvUrl(envelope) = U_example
    /\ is_url_allowed(U_example, allowed_hosts).allowed
    /\ result.status = 403

\* C4: the URL is validated before auth assembly and before any outbound
\* call, and an invocation whose URL is empty or rejected returns a failure
\* having assembled no auth and made no outbound call.
C4_ValidationFirst ==
    /\ \A i \in 1..Len(steps) :
          steps[i] # "validate" => \E j \in 1..(i - 1) : steps[j] = "validate"
    /\ Len(calls) = Cardinality({i \in 1..Len(steps) : steps[i] \in {"preflight", "probe"}})
    /\ (Running /\ IsObject /\
        (UrlIsEmpty(EnvUrl(envelope)) \/ ~is_url_allowed(EnvUrl(envelope), allowed_hosts).allowed))
        => /\ Returned
           /\ result.kind = "failure"
           /\ calls = <<>>
           /\ \A i \in 1..Len(steps) : steps[i] = "validate"

\* C4 witness: a session-authenticated POST to the metadata address is
\* rejected with no outbound call
C4_Witness_BlockedBeforeAuth ==
    /\ Running /\ Returned /\ IsObject
    /\ EnvUrl(envelope) = U_metadata
    /\ EnvMethod(envelope) = "POST"
    /\ EnvAuthType(envelope) = "session"
    /\ steps = <<"validate">>
    /\ calls = <<>>
    /\ result.kind = "failure"

\* the URL is absent or empty, or is not empty and has no hostname
InvalidUrl(url) == UrlIsEmpty(url) \/ (~UrlParseRaises(url) /\ Hostname(url) = <<>>)

\* C5: an invalid URL (absent, empty, or without a hostname) fails with
\* status 400, never with 403.
C5_InvalidUrlIs400 ==
    (Running /\ IsObject /\ InvalidUrl(EnvUrl(envelope))) =>
        /\ Returned
        /\ result.kind = "failure"
        /\ result.status = 400

\* C6: an invocation makes at most two outbound calls, at most one CSRF fetch
\* and then at most one primary probe, and makes no call after the primary
\* probe has raised.
C6_AtMostTwoCalls ==
    /\ Len(calls) <= 2
    /\ CallCount("preflight") <= 1
    /\ CallCount("probe") <= 1
    /\ \A i \in 1..Len(calls) : calls[i].kind = "preflight" => i = 1
    /\ \A i \in 1..Len(outcomes) :
          (ProbeEnded(i) /\ outcomes[i].kind = "raise") =>
              (Returned /\ Len(calls) = i /\ Len(outcomes) = i)

\* C6 witness: a CSRF fetch, then a primary probe that timed out, and the
\* handler has returned
C6_Witness_TwoCallsThenTimeout ==
    /\ Returned
    /\ Len(calls) = 2
    /\ outcomes[2] = [kind |-> "raise", exc |-> ReadTimeout]

\* C7: when the CSRF fetch raises or yields no CSRF cookie, the primary probe
\* is still issued, once, with no X-CSRFToken header but the operator's own,
\* and the handler returns what the primary probe gives.
C7_PreflightFailureSwallowed ==
    PreflightFailed =>
        /\ Len(calls) = 2
        /\ calls[2].kind = "probe"
        /\ Get(calls[2].kwargs["headers"], "X-CSRFToken", None)
              = Get(EnvHeaders(envelope), "X-CSRFToken", None)
        /\ Returned =>
              /\ Len(outcomes) = 2
              /\ IF outcomes[2].kind = "response"
                 THEN /\ result.kind = "response"
                      /\ result.status_code = outcomes[2].response.status_code
                 ELSE result = HandleException(outcomes[2].exc)

\* the failures of the taxonomy, as the handler words them
TaxonomyErrors == {
    "URL testing is disabled", "URL is required",
    "InvalidURL: no hostname", "InvalidURL: exception",
    "HostBlocked", "HostNotAllowed",
    "Request timed out", "Connection error", "Request failed",
    "Invalid JSON in request body" }

\* the primary probe raised exc
ProbeRaisedWith(exc) ==
    /\ outcomes # <<>>
    /\ ProbeEnded(Len(outcomes))
    /\ outcomes[Len(outcomes)] = [kind |-> "raise", exc |-> exc]

C9_ResponseNormalized ==
    (outcomes # <<>> /\ ProbeEnded(Len(outcomes)) /\ outcomes[Len(outcomes)].kind = "response") =>
        LET r == outcomes[Len(outcomes)].response
        IN  /\ Returned
            /\ result.kind = "response"
            /\ result.status_code = r.status_code
            /\ result.status_text = r.reason
            /\ result.url = r.url
            /\ IF r.text \in {"[1, 2]", "17", "{}"}
               THEN result.is_json /\ result.body = JsonParse[r.text]
               ELSE ~result.is_json /\ result.body = r.text
            /\ result.elapsed_ms \in Nat
            /\ result.elapsed_ms * 1000 <= r.elapsed_us
            /\ r.elapsed_us - result.elapsed_ms * 1000 <= 1000
            /\ r.elapsed_us % 1000 # 0 => result.elapsed_ms = r.elapsed_us \div 1000

\* C9 witness: a 500 response with a JSON body is returned as a normalized
\* response
C9_Witness_ServerErrorNormalized ==
    /\ Returned
    /\ result.kind = "response"
    /\ result.status_code = 500
    /\ result.is_json

(***************************************************************************)
(* The pattern functions of utils.py                                       *)
(***************************************************************************)
\* str.lstrip(c): every leading c is removed
LStrip(s, c) ==
    LET kept == {i \in 1..Len(s) : s[i] # c}
    IN  IF kept = {} THEN <<>>
        ELSE SubSeq(s, CHOOSE i \in kept : \A j \in kept : i <= j, Len(s))

\* str.rstrip(c): every trailing c is removed
RStrip(s, c) ==
    LET kept == {i \in 1..Len(s) : s[i] # c}
    IN  IF kept = {} THEN <<>>
        ELSE SubSeq(s, 1, CHOOSE i \in kept : \A j \in kept : j <= i)

\* UrlListInterface._strip_regex_anchors
strip_regex_anchors(pattern_str) == RStrip(LStrip(pattern_str, "^"), "$")

\* UrlListInterface._clean_pattern
clean_pattern(pattern) ==
    IF ~StartsWith(pattern, <<"/">>) THEN <<"/">> \o pattern ELSE pattern

\* \w of the re module, on the characters the sample texts are made of
IsWordChar(c) ==
    \/ \E i \in 1..Len(LowerAlpha) : LowerAlpha[i] = c
    \/ \E i \in 1..Len(UpperAlpha) : UpperAlpha[i] = c
    \/ \E i \in 1..Len(DigitChars) : DigitChars[i] = c
    \/ c = "_"

\* the length of the longest run of characters satisfying \w that starts at i
WordRun(s, i) ==
    LET stops == {j \in i..Len(s) : ~IsWordChar(s[j])}
    IN  IF stops = {} THEN Len(s) + 1 - i
        ELSE (CHOOSE j \in stops : \A k \in stops : j <= k) - i

\* the length of the longest run of characters other than ")" that starts at i
NonParenRun(s, i) ==
    LET stops == {j \in i..Len(s) : s[j] = ")"}
    IN  IF stops = {} THEN Len(s) + 1 - i
        ELSE (CHOOSE j \in stops : \A k \in stops : j <= k) - i

\* whether the text has character c at position i
CharAt(s, i, c) == i \in 1..Len(s) /\ s[i] = c

NoMatch == [ok |-> FALSE]

\* regex_param_pattern r'\(\?P<(\w+)>[^)]+\)' tried at position i: both
\* repetitions are greedy and what follows each is outside its class, so the
\* longest runs are the only candidates
RegexParamMatch(s, i) ==
    LET w == WordRun(s, i + 4)
        r == NonParenRun(s, i + 5 + w)
    IN  IF /\ CharAt(s, i, "(") /\ CharAt(s, i + 1, "?")
           /\ CharAt(s, i + 2, "P") /\ CharAt(s, i + 3, "<")
           /\ w >= 1
           /\ CharAt(s, i + 4 + w, ">")
           /\ r >= 1
           /\ CharAt(s, i + 5 + w + r, ")")
        THEN [ok |-> TRUE, name |-> SubSeq(s, i + 4, i + 3 + w), type |-> <<>>,
              end |-> i + 6 + w + r]
        ELSE NoMatch

\* path_param_pattern r'(?<!\?P)<(?:(\w+):)?(\w+)>' tried at position i;
\* type is empty when the optional group did not take part
PathParamMatch(s, i) ==
    LET w1 == WordRun(s, i + 1)
        w2 == WordRun(s, i + 2 + w1)
    IN  IF ~CharAt(s, i, "<") \/ (CharAt(s, i - 2, "?") /\ CharAt(s, i - 1, "P")) \/ w1 < 1
        THEN NoMatch
        ELSE IF CharAt(s, i + 1 + w1, ":") /\ w2 >= 1 /\ CharAt(s, i + 2 + w1 + w2, ">")
        THEN [ok |-> TRUE, name |-> SubSeq(s, i + 2 + w1, i + 1 + w1 + w2),
              type |-> SubSeq(s, i + 1, i + w1), end |-> i + 3 + w1 + w2]
        ELSE IF CharAt(s, i + 1 + w1, ">")
        THEN [ok |-> TRUE, name |-> SubSeq(s, i + 1, i + w1), type |-> <<>>,
              end |-> i + 2 + w1]
        ELSE NoMatch

\* re.finditer(regex_param_pattern, pattern): the matches from position i on,
\* leftmost first, each search starting where the last match ended
RECURSIVE RegexParamIter(_, _)
RegexParamIter(s, i) ==
    IF i > Len(s) THEN <<>>
    ELSE IF RegexParamMatch(s, i).ok
    THEN <<RegexParamMatch(s, i)>> \o RegexParamIter(s, RegexParamMatch(s, i).end)
    ELSE RegexParamIter(s, i + 1)

\* re.finditer(path_param_pattern, pattern)
RECURSIVE PathParamIter(_, _)
PathParamIter(s, i) ==
    IF i > Len(s) THEN <<>>
    ELSE IF PathParamMatch(s, i).ok
    THEN <<PathParamMatch(s, i)>> \o PathParamIter(s, PathParamMatch(s, i).end)
    ELSE PathParamIter(s, i + 1)

\* type_mapping.get(param_type, param_type), param_type being 'str' when the
\* optional group did not take part
type_mapping(param_type) ==
    CASE param_type = <<>> -> <<"s","t","r","i","n","g">>
      [] param_type = <<"i","n","t">> -> <<"i","n","t","e","g","e","r">>
      [] param_type = <<"s","t","r">> -> <<"s","t","r","i","n","g">>
      [] param_type = <<"s","l","u","g">> -> <<"s","l","u","g">>
      [] param_type = <<"u","u","i","d">> -> <<"U","U","I","D">>
      [] param_type = <<"p","a","t","h">> -> <<"p","a","t","h">>
      [] OTHER -> param_type

RegexType == <<"r","e","g","e","x">>

Parameter(name, type) == [name |-> name, type |-> type, in |-> "path", required |-> TRUE]

\* the names of a parameters list: seen_names
ParamNames(parameters) == {parameters[k].name : k \in 1..Len(parameters)}

\* one loop of extract_url_parameters over matches k.. : a match is appended
\* when its name is not in seen_names
RECURSIVE AppendUnseen(_, _, _, _)
AppendUnseen(parameters, matches, k, regexPhase) ==
    IF k > Len(matches) THEN parameters
    ELSE AppendUnseen(
            IF matches[k].name \notin ParamNames(parameters)
            THEN Append(parameters,
                        Parameter(matches[k].name,
                                  IF regexPhase THEN RegexType
                                  ELSE type_mapping(matches[k].type)))
            ELSE parameters,
            matches, k + 1, regexPhase)

\* extract_url_parameters
extract_url_parameters(pattern) ==
    AppendUnseen(AppendUnseen(<<>>, RegexParamIter(pattern, 1), 1, TRUE),
                 PathParamIter(pattern, 1), 1, FALSE)

(***************************************************************************)
(* Specification SpecNormalizer: the pattern functions on sample texts     *)
(***************************************************************************)
MaxPieces == 4

\* the pieces the sample pattern texts are put together from
SamplePieces == {
    <<"(","?","P","<","a",">">>,
    <<"(","?","P","<","b",">">>,
    <<"x">>,
    <<")">>,
    <<"<","a",">">>,
    <<"<","i","n","t",":","b",">">>,
    <<"^">>,
    <<"$">>,
    <<"\\">> }

RECURSIVE Concat(_)
Concat(pieces) == IF pieces = <<>> THEN <<>> ELSE Head(pieces) \o Concat(Tail(pieces))

SampleTexts == {Concat(ps) : ps \in SeqsUpTo(SamplePieces, MaxPieces)}

InitNormalizer ==
    /\ enable_testing = TRUE
    /\ requests_installed = TRUE
    /\ allowed_hosts = NotConfigured
    /\ CheckIdle
    /\ ProxyIdle
    /\ FilterIdle
    /\ InventoryIdle

\* one call self._strip_regex_anchors(pattern_str)
StripRegexAnchors ==
    /\ nrm_op = "none"
    /\ \E text \in SampleTexts :
          /\ nrm_op' = "strip"
          /\ nrm_input' = text
          /\ nrm_output' = strip_regex_anchors(text)
    /\ UNCHANGED <<settingsVars, chkVars, proxyVars, fltVars, hdlVars, colVars, serVars, apiVars>>

\* one call self._clean_pattern(pattern)
CleanPattern ==
    /\ nrm_op = "none"
    /\ \E text \in SampleTexts :
          /\ nrm_op' = "clean"
          /\ nrm_input' = text
          /\ nrm_output' = clean_pattern(text)
    /\ UNCHANGED <<settingsVars, chkVars, proxyVars, fltVars, hdlVars, colVars, serVars, apiVars>>

\* one call extract_url_parameters(pattern)
ExtractUrlParameters ==
    /\ nrm_op = "none"
    /\ \E text \in SampleTexts :
          /\ nrm_op' = "extract"
          /\ nrm_input' = text
          /\ nrm_output' = extract_url_parameters(text)
    /\ UNCHANGED <<settingsVars, chkVars, proxyVars, fltVars, hdlVars, colVars, serVars, apiVars>>

\* the caller has the value
NormalizerDone ==
    /\ nrm_op # "none"
    /\ nrm_op' = "none"
    /\ nrm_input' = <<>>
    /\ nrm_output' = <<>>
    /\ UNCHANGED <<settingsVars, chkVars, proxyVars, fltVars, hdlVars, colVars, serVars, apiVars>>

NextNormalizer == StripRegexAnchors \/ CleanPattern \/ ExtractUrlParameters \/ NormalizerDone

SpecNormalizer == InitNormalizer /\ [][NextNormalizer]_vars

(***************************************************************************)
(* Properties of the pattern functions                                     *)
(***************************************************************************)
\* the position after the ")" that closes the group whose body starts at i,
\* with depth groups open; 0 when the group is not closed
RECURSIVE GroupEnd(_, _, _)
GroupEnd(s, i, depth) ==
    IF i > Len(s) THEN 0
    ELSE IF s[i] = ")" THEN (IF depth = 1 THEN i + 1 ELSE GroupEnd(s, i + 1, depth - 1))
    ELSE IF s[i] = "(" THEN GroupEnd(s, i + 1, depth + 1)
    ELSE GroupEnd(s, i + 1, depth)

\* whether a named group (?P<name>...) starts at position i
NamedGroupAt(s, i) ==
    /\ CharAt(s, i, "(") /\ CharAt(s, i + 1, "?")
    /\ CharAt(s, i + 2, "P") /\ CharAt(s, i + 3, "<")
    /\ WordRun(s, i + 4) >= 1
    /\ CharAt(s, i + 4 + WordRun(s, i + 4), ">")
    /\ GroupEnd(s, i + 5 + WordRun(s, i + 4), 1) > 0

\* every named group of the text, nested ones too, in source order
RECURSIVE NamedGroups(_, _)
NamedGroups(s, i) ==
    IF i > Len(s) THEN <<>>
    ELSE IF NamedGroupAt(s, i)
    THEN <<[name |-> SubSeq(s, i + 4, i + 3 + WordRun(s, i + 4)), type |-> <<>>]>>
         \o NamedGroups(s, i + 1)
    ELSE NamedGroups(s, i + 1)

\* C14: extract_url_parameters returns every named group of the pattern as a
\* 'regex' parameter, in source order, then every bracket parameter in source
\* order, each name at its first occurrence only; the name of a named group
\* is not reported as a bracket parameter.
C14_AllParametersInOrder ==
    nrm_op = "extract" =>
        /\ nrm_output =
              AppendUnseen(AppendUnseen(<<>>, NamedGroups(nrm_input, 1), 1, TRUE),
                           PathParamIter(nrm_input, 1), 1, FALSE)
        /\ \A j, k \in 1..Len(nrm_output) :
              nrm_output[j].name = nrm_output[k].name => j = k

\* a single leading c removed
DropLeading(s, c) == IF CharAt(s, 1, c) THEN Tail(s) ELSE s

\* a single trailing c removed
DropTrailing(s, c) == IF CharAt(s, Len(s), c) THEN SubSeq(s, 1, Len(s) - 1) ELSE s

\* C15: _strip_regex_anchors removes one leading '^' and one trailing '$' and
\* nothing else.
C15_SingleAnchorEachEnd ==
    nrm_op = "strip" => nrm_output = DropTrailing(DropLeading(nrm_input, "^"), "$")

(***************************************************************************)
(* get_view_http_methods                                                   *)
(*                                                                         *)
(* A callback is None or a callable with the attributes the code reads:    *)
(* an attribute is Absent or Attr(value).  A view class is what            *)
(* callback.view_class or callback.cls holds.  A list of verb names may    *)
(* hold NotAString, on which .upper() and .lower() raise AttributeError.   *)
(***************************************************************************)
Absent == [has |-> FALSE]
Attr(value) == [has |-> TRUE, value |-> value]
NotAString == "<not a string>"

\* methods = ['GET', 'POST', 'PUT', 'PATCH', 'DELETE', 'HEAD', 'OPTIONS']
CanonicalMethods == <<"GET", "POST", "PUT", "PATCH", "DELETE", "HEAD", "OPTIONS">>

\* str.lower() on a verb name
LowerName(m) ==
    CASE m = "GET" -> "get"
      [] m = "POST" -> "post"
      [] m = "PUT" -> "put"
      [] m = "PATCH" -> "patch"
      [] m = "DELETE" -> "delete"
      [] m = "HEAD" -> "head"
      [] m = "OPTIONS" -> "options"
      [] m = "TRACE" -> "trace"
      [] OTHER -> m

\* x in a list
InList(x, list) == \E i \in 1..Len(list) : list[i] = x

\* the callback is None
CallbackNone == [kind |-> "None"]

\* a view class: whether it has __name__ (an instance has none), its
\* http_method_names attribute, and the lower-case verbs it has as attributes
ViewClass(hasName, names, implemented) ==
    [has_name |-> hasName, name |-> "ItemView", module |-> "app.views",
     http_method_names |-> names, implemented |-> implemented]

\* a callable, with its attributes view_class, cls, actions, http_method_names
\* and its __name__ and __module__
Callback(viewClass, cls, actions, names) ==
    [kind |-> "callable", name |-> Attr("item_view"), module |-> Attr("app.views"),
     view_class |-> viewClass, cls |-> cls, actions |-> actions,
     http_method_names |-> names]

\* getattr(callback, 'view_class', None) or getattr(callback, 'cls', None);
\* Absent stands for the None it ends as
ViewClassOf(callback) ==
    IF callback.view_class.has THEN callback.view_class ELSE callback.cls

\* [v for v in list if keep], in the list's order
RECURSIVE Filtered(_, _)
Filtered(list, keep) ==
    IF list = <<>> THEN <<>>
    ELSE (IF Head(list) \in keep THEN <<Head(list)>> ELSE <<>>) \o Filtered(Tail(list), keep)

\* sorted(allowed_methods, key=lambda x: methods.index(x)): the sort is
\* stable and equal keys are equal verbs, so each canonical verb comes as
\* often as it is in the list
RECURSIVE SortedCanonical(_, _)
SortedCanonical(allowed, i) ==
    IF i > Len(CanonicalMethods) THEN <<>>
    ELSE Filtered(allowed, {CanonicalMethods[i]}) \o SortedCanonical(allowed, i + 1)

\* the branch "DRF ViewSet with actions": the keys of callback.actions in
\* upper case that are canonical, then HEAD and OPTIONS
FromActions(actions) ==
    LET upper == [i \in 1..Len(actions) |-> Upper(actions[i])]
        listed == Filtered(upper, {CanonicalMethods[i] : i \in 1..Len(CanonicalMethods)})
        withHead == IF InList("GET", listed) /\ ~InList("HEAD", listed)
                    THEN Append(listed, "HEAD") ELSE listed
        withOptions == IF ~InList("OPTIONS", withHead)
                       THEN Append(withHead, "OPTIONS") ELSE withHead
    IN  SortedCanonical(withOptions, 1)

\* the branch "view has http_method_names configured": the canonical verbs
\* that are configured and that the class has as attributes
FromAllowList(viewClass) ==
    LET names == viewClass.http_method_names.value
        configured == {LowerName(names[i]) : i \in 1..Len(names)}
    IN  Filtered(CanonicalMethods,
                 {m \in {CanonicalMethods[i] : i \in 1..Len(CanonicalMethods)} :
                     LowerName(m) \in configured /\ LowerName(m) \in viewClass.implemented})

\* "Fallback: Check for any implemented methods"
FromImplemented(viewClass) ==
    Filtered(CanonicalMethods,
             {m \in {CanonicalMethods[i] : i \in 1..Len(CanonicalMethods)} :
                 LowerName(m) \in viewClass.implemented})

\* "For function-based views": [m.upper() for m in callback.http_method_names
\* if m.upper() in methods]
FromCallbackNames(names) ==
    Filtered([i \in 1..Len(names) |-> Upper(names[i])],
             {CanonicalMethods[i] : i \in 1..Len(CanonicalMethods)})

DefaultMethods == <<"GET", "POST">>

Returns(list) == [raised |-> FALSE, value |-> list]
Raises == [raised |-> TRUE, value |-> <<>>]

\* the try block of get_view_http_methods: what it returns, or that it
\* raises (.upper() or .lower() on what is no string)
TryIntrospect(callback) ==
    LET vc == ViewClassOf(callback)
    IN  IF vc.has /\ callback.actions.has /\ callback.actions.value # <<>>
        THEN (IF InList(NotAString, callback.actions.value) THEN Raises
              ELSE Returns(FromActions(callback.actions.value)))
        ELSE IF vc.has /\ vc.value.http_method_names.has
                /\ InList(NotAString, vc.value.http_method_names.value)
        THEN Raises
        ELSE IF vc.has /\ vc.value.http_method_names.has /\ FromAllowList(vc.value) # <<>>
        THEN Returns(FromAllowList(vc.value))
        ELSE IF vc.has /\ FromImplemented(vc.value) # <<>>
        THEN Returns(FromImplemented(vc.value))
        ELSE IF callback.http_method_names.has
        THEN (IF InList(NotAString, callback.http_method_names.value) THEN Raises
              ELSE Returns(FromCallbackNames(callback.http_method_names.value)))
        ELSE Returns(DefaultMethods)

\* get_view_http_methods
get_view_http_methods(callback) ==
    IF callback = CallbackNone THEN <<"GET">>
    ELSE IF TryIntrospect(callback).raised THEN DefaultMethods
    ELSE TryIntrospect(callback).value

(***************************************************************************)
(* Specification SpecIntrospect: get_view_http_methods on sample handlers  *)
(***************************************************************************)
SampleImplemented == {{}, {"get"}, {"get", "post", "options"}, {"delete", "trace"}}

SampleAllowLists == {Absent} \cup
    {Attr(names) : names \in {<<>>, <<"get", "post">>, <<"GET", "delete">>, <<"trace">>,
                              <<NotAString>>}}

SampleViewClasses ==
    {Attr(ViewClass(TRUE, names, implemented)) :
        names \in SampleAllowLists, implemented \in SampleImplemented}

SampleActions == {Absent} \cup
    {Attr(keys) : keys \in {<<>>, <<"get", "post">>, <<"post", "get">>,
                            <<"put", "patch", "delete">>, <<"trace">>, <<"get", "GET">>,
                            <<NotAString>>}}

SampleCallbackNames == {Absent} \cup
    {Attr(names) : names \in {<<>>, <<"get">>, <<"GET", "post">>, <<"trace">>,
                              <<"get", "GET">>, <<NotAString>>}}

SampleCallbacks ==
    {CallbackNone}
    \cup {Callback(Absent, Absent, actions, names) :
            actions \in {Absent, Attr(<<"get", "post">>)}, names \in SampleCallbackNames}
    \cup {Callback(vc, Absent, actions, names) :
            vc \in SampleViewClasses, actions \in SampleActions,
            names \in {Absent, Attr(<<"trace">>)}}
    \cup {Callback(Absent, vc, actions, Absent) :
            vc \in SampleViewClasses, actions \in {Absent, Attr(<<"get", "post">>)}}

InitIntrospect ==
    /\ enable_testing = TRUE
    /\ requests_installed = TRUE
    /\ allowed_hosts = NotConfigured
    /\ CheckIdle
    /\ ProxyIdle
    /\ FilterIdle
    /\ InventoryIdle

\* one call get_view_http_methods(callback)
GetViewHttpMethods ==
    /\ hdl_callback = NoCallback
    /\ \E callback \in SampleCallbacks :
          /\ hdl_callback' = callback
          /\ hdl_methods' = get_view_http_methods(callback)
    /\ UNCHANGED <<settingsVars, chkVars, proxyVars, fltVars, nrmVars, colVars, serVars, apiVars>>

\* the caller has the list
IntrospectDone ==
    /\ hdl_callback # NoCallback
    /\ hdl_callback' = NoCallback
    /\ hdl_methods' = <<>>
    /\ UNCHANGED <<settingsVars, chkVars, proxyVars, fltVars, nrmVars, colVars, serVars, apiVars>>

NextIntrospect == GetViewHttpMethods \/ IntrospectDone

SpecIntrospect == InitIntrospect /\ [][NextIntrospect]_vars

\* C16: for every handler get_view_http_methods returns a list that is not
\* empty, holds canonical upper-case verbs only, and holds none twice.
C16_NonEmptyCanonicalNoRepeat ==
    hdl_callback # NoCallback =>
        /\ hdl_methods # <<>>
        /\ \A i \in 1..Len(hdl_methods) : InList(hdl_methods[i], CanonicalMethods)
        /\ \A i, j \in 1..Len(hdl_methods) : hdl_methods[i] = hdl_methods[j] => i = j

(***************************************************************************)
(* UrlListInterface: construction and _extract_patterns                    *)
(*                                                                         *)
(* resolver.url_patterns is a table of nodes and the list of the root's    *)
(* nodes; a node is named by its key, so that one node can be listed in    *)
(* two places, also under itself.  Route fragments, names and namespaces   *)
(* are texts (sequences of characters), NoneText being None.               *)
(***************************************************************************)
NoneText == <<"<None>">>

\* "if x:" for a text that may be None
TextTruthy(text) == text # NoneText /\ text # <<>>

\* settings.ROOT_URLCONF
ROOT_URLCONF == "project.urls"

\* UrlListInterface.__init__: self.urlconf
InitUrlconf(urlconf_argument) ==
    IF Truthy(urlconf_argument) THEN urlconf_argument ELSE ROOT_URLCONF

\* an included URLconf: URLResolver(pattern, url_patterns, namespace)
URLResolver(pattern, namespace, url_patterns) ==
    [kind |-> "URLResolver", pattern |-> pattern, namespace |-> namespace,
     url_patterns |-> url_patterns]

\* a route: URLPattern(pattern, callback, name)
URLPattern(pattern, name, callback) ==
    [kind |-> "URLPattern", pattern |-> pattern, name |-> name, callback |-> callback]

\* new_namespace of _extract_patterns
NewNamespace(namespace, node) ==
    IF TextTruthy(node.namespace)
    THEN (IF namespace # <<>> THEN namespace \o <<":">> \o node.namespace
          ELSE node.namespace)
    ELSE namespace

\* new_prefix of _extract_patterns
NewPrefix(prefix, node) == prefix \o strip_regex_anchors(node.pattern)

\* variant: the leaf's pattern is concatenated as it is
FullPattern_Unstripped(prefix, node) == clean_pattern(prefix \o node.pattern)

\* full_pattern of _extract_patterns
FullPattern(prefix, node) == clean_pattern(prefix \o strip_regex_anchors(node.pattern))

\* variant: a leaf without name is named by its namespace
FullName_NamespaceAlone(namespace, node) ==
    IF TextTruthy(node.name)
    THEN (IF namespace # <<>> THEN namespace \o <<":">> \o node.name ELSE node.name)
    ELSE IF namespace # <<>> THEN namespace ELSE NoneText

\* full_name of _extract_patterns
FullName(namespace, node) ==
    IF TextTruthy(node.name)
    THEN (IF namespace # <<>> THEN namespace \o <<":">> \o node.name ELSE node.name)
    ELSE NoneText

\* the view class that _get_view_info names: callback.view_class, else callback.cls
NamedViewClass(callback) ==
    IF callback.view_class.has THEN callback.view_class
    ELSE IF callback.cls.has THEN callback.cls
    ELSE Absent

\* _get_view_info: a qualified name is the list of its dotted parts;
\* view_class.__name__ raises AttributeError on what has no __name__
get_view_info(node) ==
    LET callback == node.callback
        named == IF callback.name.has THEN <<callback.name.value>> ELSE <<>>
        view_name == IF callback.module.has THEN <<callback.module.value>> \o named
                     ELSE named
        vc == NamedViewClass(callback)
    IN  IF callback = CallbackNone
        THEN [raised |-> FALSE, view_name |-> <<"Unknown">>, view_class |-> NoneText,
              http_methods |-> get_view_http_methods(callback),
              url_parameters |-> extract_url_parameters(node.pattern)]
        ELSE IF vc.has /\ ~vc.value.has_name
        THEN [raised |-> TRUE, exc |-> "AttributeError"]
        ELSE [raised |-> FALSE,
              view_name |-> IF view_name = <<>> THEN <<"Unknown">> ELSE view_name,
              view_class |-> IF vc.has THEN <<vc.value.module, vc.value.name>> ELSE NoneText,
              http_methods |-> get_view_http_methods(callback),
              url_parameters |-> extract_url_parameters(node.pattern)]

\* variant: the parameters are read from the full pattern
LeafDescriptor_PatternParameters(namespace, prefix, node, view_info) ==
    [pattern |-> FullPattern(prefix, node),
     name |-> FullName(namespace, node),
     view |-> view_info.view_name,
     view_class |-> view_info.view_class,
     namespace |-> IF namespace # <<>> THEN namespace ELSE NoneText,
     app_name |-> node.name,
     http_methods |-> view_info.http_methods,
     url_parameters |-> extract_url_parameters(FullPattern(prefix, node))]

\* the dict appended for a leaf
LeafDescriptor(namespace, prefix, node, view_info) ==
    [pattern |-> FullPattern(prefix, node),
     name |-> FullName(namespace, node),
     view |-> view_info.view_name,
     view_class |-> view_info.view_class,
     namespace |-> IF namespace # <<>> THEN namespace ELSE NoneText,
     app_name |-> node.name,
     http_methods |-> view_info.http_methods,
     url_parameters |-> view_info.url_parameters]

Listed(url_list) == [kind |-> "list", urls |-> url_list]
Raised(exc) == [kind |-> "raise", exc |-> exc]

\* the depth of calls at which the interpreter raises RecursionError
RecursionLimit == 5

\* variant: a leaf whose pattern is already listed is left out
Collect_Deduplicated(url_list, descriptor) ==
    IF \E k \in 1..Len(url_list) : url_list[k].pattern = descriptor.pattern
    THEN url_list ELSE Append(url_list, descriptor)

\* url_list.append(...)
Collect(url_list, descriptor) == Append(url_list, descriptor)

\* _extract_patterns(patterns, namespace, prefix), from the k-th of patterns
\* on with url_list so far, at call depth depth: the list, or what is raised
RECURSIVE ExtractFrom(_, _, _, _, _, _, _)
ExtractFrom(nodes, patterns, k, namespace, prefix, depth, url_list) ==
    IF depth > RecursionLimit THEN Raised("RecursionError")
    ELSE IF k > Len(patterns) THEN Listed(url_list)
    ELSE LET node == nodes[patterns[k]]
         IN  IF node.kind = "URLResolver"
             THEN LET sub == ExtractFrom(nodes, node.url_patterns, 1,
                                         NewNamespace(namespace, node),
                                         NewPrefix(prefix, node), depth + 1, <<>>)
                  IN  IF sub.kind = "raise" THEN sub
                      ELSE ExtractFrom(nodes, patterns, k + 1, namespace, prefix, depth,
                                       url_list \o sub.urls)
             ELSE IF get_view_info(node).raised
             THEN Raised(get_view_info(node).exc)
             ELSE ExtractFrom(nodes, patterns, k + 1, namespace, prefix, depth,
                              Collect(url_list,
                                      LeafDescriptor(namespace, prefix, node,
                                                     get_view_info(node))))

\* self._extract_patterns(self.resolver.url_patterns, namespace="", prefix="")
extract_patterns(t) == ExtractFrom(t.nodes, t.root, 1, <<>>, <<>>, 1, <<>>)

(***************************************************************************)
(* Specification SpecCollector: an interface is constructed over a sample  *)
(* routing tree and the tree is traversed                                  *)
(***************************************************************************)
SampleGroupFragments == {<<"^","a","/">>, <<"/","<","b",">","/","$">>, <<>>, <<"^","^","c","/">>}
SampleNamespaces == {NoneText, <<"n">>, <<"m">>}
SampleLeafFragments == {
    <<"^","u","/","$">>,
    <<"^","(","?","P","<","k",">","[","^","/","]","+",")","|","^","v","$">>,
    <<"<","i","n","t",":","p",">","/">> }
SampleLeafNames == {NoneText, <<"l">>}

\* an absent handler, a class-based view, and a callback whose view_class
\* is an instance (it has no __name__)
SampleLeafCallbacks == {
    CallbackNone,
    Callback(Attr(ViewClass(TRUE, Absent, {"get", "post"})), Absent, Absent, Absent),
    Callback(Attr(ViewClass(FALSE, Absent, {"get"})), Absent, Absent, Absent) }

SampleGroups(children) ==
    {URLResolver(f, ns, children) : f \in SampleGroupFragments, ns \in SampleNamespaces}

SampleLeaves ==
    {URLPattern(f, name, callback) :
        f \in SampleLeafFragments, name \in SampleLeafNames,
        callback \in SampleLeafCallbacks}

Tree(root, n1, n2, n3) == [root |-> root, nodes |-> <<n1, n2, n3>>]

\* two routes side by side
FlatTrees == {Tree(<<1, 2>>, a, b, b) : a \in SampleLeaves, b \in SampleLeaves}

\* an include with one route, then a route
NestedTrees ==
    {Tree(<<1, 3>>, g, a, b) : g \in SampleGroups(<<2>>), a \in SampleLeaves, b \in SampleLeaves}

\* an include in an include
DeepTrees ==
    {Tree(<<1>>, g, h, a) :
        g \in SampleGroups(<<2>>), h \in SampleGroups(<<3>>), a \in SampleLeaves}

\* a route, then an include that lists a route and the first route again
SharedTrees ==
    {Tree(<<3, 1>>, g, a, b) :
        g \in SampleGroups(<<2, 3>>), a \in SampleLeaves, b \in SampleLeaves}

\* an include that lists itself
SelfTrees == {Tree(<<1>>, g, a, a) : g \in SampleGroups(<<2, 1>>), a \in SampleLeaves}

\* an include that lists an include that lists the first
LoopTrees ==
    {Tree(<<1>>, g, h, a) :
        g \in SampleGroups(<<2>>), h \in SampleGroups(<<3, 1>>), a \in SampleLeaves}

\* get_resolver(urlconf).url_patterns: the trees a URLconf may hold
SampleTrees(name) ==
    IF name = ROOT_URLCONF
    THEN NestedTrees \cup DeepTrees \cup SharedTrees \cup SelfTrees \cup LoopTrees
    ELSE FlatTrees

InitCollector ==
    /\ enable_testing = TRUE
    /\ requests_installed = TRUE
    /\ allowed_hosts = NotConfigured
    /\ CheckIdle
    /\ ProxyIdle
    /\ FilterIdle
    /\ NormalizerIdle
    /\ IntrospectIdle
    /\ SerializerIdle
    /\ ApiIdle
    /\ url_config \in {None, "custom.urls"}
    /\ urlconf_arg = None
    /\ urlconf = None
    /\ tree = NoTree
    /\ col_output = NoOutput

\* UrlListInterface(urlconf)
Construct ==
    /\ urlconf = None
    /\ \E argument \in {None, "explicit.urls"} :
          /\ urlconf_arg' = argument
          /\ urlconf' = InitUrlconf(argument)
          /\ tree' \in SampleTrees(InitUrlconf(argument))
    /\ col_output' = NoOutput
    /\ UNCHANGED <<settingsVars, chkVars, proxyVars, fltVars, nrmVars, hdlVars, serVars, apiVars, url_config>>

\* self._extract_patterns(self.resolver.url_patterns, namespace="", prefix="")
ExtractPatterns ==
    /\ urlconf # None
    /\ col_output = NoOutput
    /\ col_output' = extract_patterns(tree)
    /\ UNCHANGED <<settingsVars, chkVars, proxyVars, fltVars, nrmVars, hdlVars, serVars, apiVars,
                   url_config, urlconf_arg, urlconf, tree>>

\* the instance is dropped
Discard ==
    /\ col_output # NoOutput
    /\ urlconf_arg' = None
    /\ urlconf' = None
    /\ tree' = NoTree
    /\ col_output' = NoOutput
    /\ UNCHANGED <<settingsVars, chkVars, proxyVars, fltVars, nrmVars, hdlVars, serVars, apiVars, url_config>>

NextCollector == Construct \/ ExtractPatterns \/ Discard

SpecCollector == InitCollector /\ [][NextCollector]_vars

(***************************************************************************)
(* Properties of the collector                                             *)
(***************************************************************************)
\* the traversal has ended with a list
Collected == col_output # NoOutput /\ col_output.kind = "list"

\* the leaves of patterns in pre-order, each as its chain: the keys of its
\* ancestor groups, outermost first, and then its own key
RECURSIVE LeafChains(_, _, _, _)
LeafChains(nodes, patterns, chain, fuel) ==
    IF fuel = 0 \/ patterns = <<>> THEN <<>>
    ELSE LET key == Head(patterns)
             below == IF nodes[key].kind = "URLPattern" THEN <<Append(chain, key)>>
                      ELSE LeafChains(nodes, nodes[key].url_patterns, Append(chain, key),
                                      fuel - 1)
         IN  below \o LeafChains(nodes, Tail(patterns), chain, fuel)

\* the chains of the tree that was traversed
Chains == LeafChains(tree.nodes, tree.root, <<>>, RecursionLimit)

\* the leaf of a chain, and its ancestors' and its own fragments
LeafOf(chain) == tree.nodes[chain[Len(chain)]]
Fragments(chain) == [k \in 1..Len(chain) |-> tree.nodes[chain[k]].pattern]

\* the i-th descriptor and the i-th leaf are both there
Paired == IF Collected THEN (1..Len(col_output.urls)) \cap (1..Len(Chains)) ELSE {}

\* a text with '/' put before it unless it begins with one
WithSlash(text) == IF CharAt(text, 1, "/") THEN text ELSE <<"/">> \o text

\* a fragment without one leading '^' and one trailing '$'
AnchorStripped(fragment) == DropTrailing(DropLeading(fragment, "^"), "$")

\* C11: the pattern of a leaf's descriptor is '/' and then the fragments of
\* its ancestor groups, outermost first, and its own fragment, each
\* anchor-stripped and then concatenated; no '/' is added where the
\* concatenation begins with one.
C11_PatternIsStrippedChain ==
    \A i \in Paired :
        col_output.urls[i].pattern =
            WithSlash(Concat([k \in 1..Len(Chains[i]) |->
                                 AnchorStripped(Fragments(Chains[i])[k])]))

\* the number of places of a text that hold c
CountChar(text, c) == Cardinality({k \in 1..Len(text) : text[k] = c})

\* a fragment without its leading '^'s and its trailing '$'s
RECURSIVE Unanchored(_)
Unanchored(fragment) ==
    IF CharAt(fragment, 1, "^") THEN Unanchored(Tail(fragment))
    ELSE IF CharAt(fragment, Len(fragment), "$")
    THEN Unanchored(SubSeq(fragment, 1, Len(fragment) - 1))
    ELSE fragment

\* the fragments of a chain, each without its anchors, one after the other
Inside(chain) == Concat([k \in 1..Len(chain) |-> Unanchored(Fragments(chain)[k])])

\* C12 as claimed: every descriptor's pattern begins with '/' and holds no
\* '^' and no '$' anywhere.
C12_NoAnchorAnywhere ==
    \A i \in Paired :
        LET pattern == col_output.urls[i].pattern
        IN  /\ CharAt(pattern, 1, "/")
            /\ CountChar(pattern, "^") = 0
            /\ CountChar(pattern, "$") = 0

\* C12 as amended: every descriptor's pattern begins with '/', does not end
\* with '$', and holds a '^' or a '$' only where a fragment of its chain
\* holds one after its leading '^'s and before its trailing '$'s.
C12_AnchorsOnlyInside ==
    \A i \in Paired :
        LET pattern == col_output.urls[i].pattern
        IN  /\ CharAt(pattern, 1, "/")
            /\ ~CharAt(pattern, Len(pattern), "$")
            /\ CountChar(pattern, "^") = CountChar(Inside(Chains[i]), "^")
            /\ CountChar(pattern, "$") = CountChar(Inside(Chains[i]), "$")

\* C12 witness: a leaf whose fragment is anchored at both ends and holds a
\* '^' inside is listed under a group, its pattern holding that one '^' only
\* besides the one of the character class
C12_Witness_InnerAnchorKept ==
    \E i \in Paired :
        /\ Len(Chains[i]) = 2
        /\ CharAt(Fragments(Chains[i])[1], 1, "^")
        /\ CharAt(LeafOf(Chains[i]).pattern, 1, "^")
        /\ CharAt(LeafOf(Chains[i]).pattern, Len(LeafOf(Chains[i]).pattern), "$")
        /\ CountChar(LeafOf(Chains[i]).pattern, "^") = 3
        /\ CountChar(col_output.urls[i].pattern, "^") = 2
        /\ CountChar(col_output.urls[i].pattern, "$") = 0

\* a name or namespace that is there
Present(text) == text # NoneText /\ text # <<>>

\* texts joined with ':'
RECURSIVE ColonJoin(_)
ColonJoin(texts) ==
    IF texts = <<>> THEN <<>>
    ELSE IF Len(texts) = 1 THEN texts[1]
    ELSE texts[1] \o <<":">> \o ColonJoin(Tail(texts))

\* the namespaces of the ancestor groups that have one, outermost first,
\* joined with ':'
Accumulated(chain) ==
    ColonJoin(SelectSeq([k \in 1..(Len(chain) - 1) |-> tree.nodes[chain[k]].namespace],
                        Present))

\* C13 as claimed: a descriptor's name is namespace:name when the accumulated
\* namespace and the leaf's name are both present, the one that is present
\* when only one is, and absent when neither is.
C13_WhicheverPresent ==
    \A i \in Paired :
        LET namespace == Accumulated(Chains[i])
            name == LeafOf(Chains[i]).name
        IN  col_output.urls[i].name =
                IF Present(namespace) /\ Present(name) THEN namespace \o <<":">> \o name
                ELSE IF Present(name) THEN name
                ELSE IF Present(namespace) THEN namespace
                ELSE NoneText

\* C13 as amended: a descriptor's name is namespace:name when both are
\* present, the leaf's name alone when there is no namespace, and absent
\* when the leaf has no name, with or without a namespace; its namespace is
\* the accumulated namespace, the ancestors' namespaces joined with ':'
\* outermost first, or absent when no ancestor has one.
C13_AbsentWithoutLeafName ==
    \A i \in Paired :
        LET namespace == Accumulated(Chains[i])
            name == LeafOf(Chains[i]).name
        IN  /\ col_output.urls[i].name =
                  IF ~Present(name) THEN NoneText
                  ELSE IF Present(namespace) THEN namespace \o <<":">> \o name
                  ELSE name
            /\ col_output.urls[i].namespace =
                  IF Present(namespace) THEN namespace ELSE NoneText

\* C13 witness: a leaf without name under the groups n and m is listed with
\* no name and with the namespace n:m
C13_Witness_UnnamedUnderNamespace ==
    \E i \in Paired :
        /\ Len(Chains[i]) = 3
        /\ tree.nodes[Chains[i][1]].namespace = <<"n">>
        /\ tree.nodes[Chains[i][2]].namespace = <<"m">>
        /\ LeafOf(Chains[i]).name = NoneText
        /\ col_output.urls[i].name = NoneText
        /\ col_output.urls[i].namespace = <<"n", ":", "m">>

\* an interface has been constructed
Constructed == urlconf # None

\* C17: the URLconf an interface inspects is the urlconf argument when one
\* is given, else the URL_CONFIG setting when it is set, else ROOT_URLCONF.
C17_UrlConfigHonoured ==
    Constructed =>
        urlconf = IF urlconf_arg # None THEN urlconf_arg
                  ELSE IF url_config # None THEN url_config
                  ELSE ROOT_URLCONF

\* C18: the traversal ends with a list for every tree, also for a tree in
\* which a group is listed under itself: it never runs out of call depth.
C18_TraversalTerminates ==
    col_output # NoOutput => col_output # Raised("RecursionError")

\* the keys a node lists
Children(key) ==
    IF tree.nodes[key].kind = "URLResolver"
    THEN {tree.nodes[key].url_patterns[k] : k \in 1..Len(tree.nodes[key].url_patterns)}
    ELSE {}

\* the keys and all that is listed under them, n levels down
RECURSIVE Below(_, _)
Below(keys, n) ==
    IF n = 0 THEN keys ELSE Below(keys \cup UNION {Children(key) : key \in keys}, n - 1)

\* a group of the tree is listed, directly or not, under itself
Cyclic ==
    \E key \in Below({tree.root[k] : k \in 1..Len(tree.root)}, Len(tree.nodes)) :
        key \in Below(Children(key), Len(tree.nodes))

\* C19: for every tree that is no cycle the traversal returns a list with a
\* descriptor for every leaf, a leaf whose handler is absent or whose
\* introspection fails being listed with the view name Unknown or absent
\* metadata; no leaf's failure raises out of the traversal.
C19_TotalBestEffort ==
    (col_output # NoOutput /\ ~Cyclic) =>
        /\ col_output.kind = "list"
        /\ Len(col_output.urls) = Len(Chains)
        /\ \A i \in Paired :
              LeafOf(Chains[i]).callback = CallbackNone =>
                  /\ col_output.urls[i].view = <<"Unknown">>
                  /\ col_output.urls[i].view_class = NoneText

\* C20: the list holds one descriptor for every leaf of the tree, in
\* pre-order (the leaves of a group one after the other at the group's place
\* among its siblings), and leaves with the same pattern are all listed: the
\* i-th descriptor is the one of the i-th leaf, by its own name, its
\* handler, its namespace and its pattern.
C20_OnePerLeafInPreOrder ==
    Collected =>
        /\ Len(col_output.urls) = Len(Chains)
        /\ \A i \in Paired :
              /\ col_output.urls[i].app_name = LeafOf(Chains[i]).name
              /\ (col_output.urls[i].view_class = NoneText)
                    <=> (LeafOf(Chains[i]).callback = CallbackNone)
              /\ col_output.urls[i].namespace =
                    IF Present(Accumulated(Chains[i])) THEN Accumulated(Chains[i])
                    ELSE NoneText
              /\ col_output.urls[i].pattern = WithSlash(Inside(Chains[i]))

\* C20 witness: a route, then a group that lists another route and the
\* first route again: three descriptors, the first and the third with the
\* same pattern and different namespaces
C20_Witness_SamePatternTwice ==
    /\ Collected
    /\ tree.root = <<3, 1>>
    /\ Len(col_output.urls) = 3
    /\ col_output.urls[1].pattern = col_output.urls[3].pattern
    /\ col_output.urls[1].namespace # col_output.urls[3].namespace
    /\ col_output.urls[2].pattern # col_output.urls[1].pattern

(***************************************************************************)
(* Properties of _is_url_allowed under ALLOWED_HOSTS                       *)
(***************************************************************************)
\* the hostname of a URL with its letters as they are written
HostAsWritten(url) ==
    LET hostinfo == After(url.netloc, LastIndexOf("@", url.netloc))
        colon == IndexOf(":", hostinfo)
    IN  IF IndexOf("[", hostinfo) > 0 THEN Hostname(url)
        ELSE IF colon > 0 THEN Before(hostinfo, colon) ELSE hostinfo

\* C22: with ALLOWED_HOSTS configured, a URL is accepted exactly when its
\* hostname, letter case included, is one of the entries; a hostname that
\* differs from every entry in letter case is rejected with HostNotAllowed.
C22_CaseSensitiveMatch ==
    (CheckedHost /\ allowed_hosts.configured) =>
        /\ chk_verdict.allowed <=> HostAsWritten(chk_url) \in allowed_hosts.hosts
        /\ ~chk_verdict.allowed => chk_verdict = Rejected("HostNotAllowed")

(***************************************************************************)
(* Properties of get_view_http_methods by resolution step                  *)
(***************************************************************************)
\* get_view_http_methods has been called on a callable
IntrospectedCallable == hdl_callback # NoCallback /\ hdl_callback # CallbackNone

\* the canonical verbs of a set, in canonical order
InCanonicalOrder(verbs) == SelectSeq(CanonicalMethods, LAMBDA m : m \in verbs)

\* the verbs an action map stands for: its keys that are verb names, HEAD
\* with GET, and OPTIONS
VerbsOfActions(actions) ==
    LET keys == {Upper(actions[k]) : k \in {j \in 1..Len(actions) : actions[j] # NotAString}}
    IN  keys \cup (IF "GET" \in keys THEN {"HEAD"} ELSE {}) \cup {"OPTIONS"}

\* C23: whenever the handler has a non-empty action map, the result is the
\* canonical verbs among the map's keys, HEAD when GET is one, and OPTIONS,
\* in canonical order, whatever the class's allow-list, implemented methods
\* and the handler's own http_method_names are.
C23_ActionMapFirst ==
    (IntrospectedCallable /\ hdl_callback.actions.has /\ hdl_callback.actions.value # <<>>) =>
        hdl_methods = InCanonicalOrder(VerbsOfActions(hdl_callback.actions.value))

\* the handler has no action map, and its class declares an allow-list
AllowListOnly ==
    /\ IntrospectedCallable
    /\ ~(hdl_callback.actions.has /\ hdl_callback.actions.value # <<>>)
    /\ ViewClassOf(hdl_callback).has
    /\ ViewClassOf(hdl_callback).value.http_method_names.has

\* C24: for a handler with no action map whose class declares an allow-list,
\* every verb returned is in the allow-list and is implemented by the class,
\* and the list is in canonical order.
C24_WithinAllowList ==
    AllowListOnly =>
        LET class == ViewClassOf(hdl_callback).value
            names == class.http_method_names.value
            listed == {LowerName(names[k]) : k \in 1..Len(names)}
            verbs == {hdl_methods[k] : k \in 1..Len(hdl_methods)}
        IN  /\ \A v \in verbs : LowerName(v) \in listed /\ LowerName(v) \in class.implemented
            /\ hdl_methods = InCanonicalOrder(verbs)

(***************************************************************************)
(* Properties of the CSRF pre-flight and of the body                       *)
(***************************************************************************)
\* the outbound calls of one kind made so far
CallsOf(kind) == {i \in 1..Len(calls) : calls[i].kind = kind}

\* the auth mode is session, or sessionCookieValue with a value
SessionAuth ==
    \/ EnvAuthType(envelope) = "session"
    \/ EnvAuthType(envelope) = "session_cookie" /\ EnvAuthValue(envelope) # <<>>

\* the verb is one of POST, PUT, PATCH, DELETE
Mutating == EnvMethod(envelope) \in {"POST", "PUT", "PATCH", "DELETE"}

\* the CSRF token of the caller's context, None when there is none
CallerToken ==
    IF Truthy(Get(caller.META, "CSRF_COOKIE", None)) THEN caller.META["CSRF_COOKIE"]
    ELSE Get(caller.COOKIES, CSRF_COOKIE_NAME, None)

\* C25: a CSRF pre-flight is made only for session or sessionCookieValue
\* auth with a mutating verb and no token in the caller's context, and then
\* it is made; with a token, the token is the primary probe's X-CSRFToken
\* and no pre-flight is made; for other verbs and other auth modes no
\* pre-flight is made and the probe's X-CSRFToken is the operator's own, if
\* any; the pre-flight is a GET to scheme://netloc of the validated URL with
\* timeout 5 whatever the operator's timeout; a CSRF cookie it harvests is
\* the primary probe's CSRF cookie and X-CSRFToken.
C25_PreflightRule ==
    (IsObject /\ "auth" \in {steps[i] : i \in 1..Len(steps)}) =>
        /\ (CallsOf("preflight") # {}) <=> (SessionAuth /\ Mutating /\ ~Truthy(CallerToken))
        /\ \A i \in CallsOf("preflight") :
              /\ i = 1
              /\ is_url_allowed(EnvUrl(envelope), allowed_hosts).allowed
              /\ calls[i].kwargs.method = "GET"
              /\ calls[i].kwargs.url =
                    Url(EnvUrl(envelope).scheme, EnvUrl(envelope).netloc, "")
              /\ calls[i].kwargs.timeout = CsrfTimeout
        /\ \A i \in CallsOf("probe") :
              LET sent == calls[i].kwargs
                  token == Get(sent["headers"], "X-CSRFToken", None)
              IN  /\ (SessionAuth /\ Mutating /\ Truthy(CallerToken)) => token = CallerToken
                  /\ ~(SessionAuth /\ Mutating) =>
                        token = Get(EnvHeaders(envelope), "X-CSRFToken", None)
                  /\ (i = 2 /\ outcomes[1].kind = "response"
                      /\ CSRF_COOKIE_NAME \in DOMAIN outcomes[1].cookies) =>
                        /\ token = outcomes[1].cookies[CSRF_COOKIE_NAME]
                        /\ sent["cookies"][CSRF_COOKIE_NAME] = outcomes[1].cookies[CSRF_COOKIE_NAME]

\* C25 witness: a session POST with timeout 10 and no token at the caller:
\* the pre-flight harvested a CSRF cookie and the primary probe carries it
C25_Witness_HarvestedToken ==
    /\ Returned
    /\ EnvAuthType(envelope) = "session"
    /\ EnvTimeout(envelope) = 10
    /\ Len(calls) = 2
    /\ calls[1].kind = "preflight"
    /\ calls[1].kwargs.timeout = CsrfTimeout
    /\ calls[2].kwargs["timeout"] = 10
    /\ Get(calls[2].kwargs["headers"], "X-CSRFToken", None) = "fresh-csrf"
    /\ Get(Get(calls[2].kwargs, "cookies", EmptyDict), CSRF_COOKIE_NAME, None) = "fresh-csrf"

\* the entries of a headers dict that name the Content-Type header: header
\* names are the same header in any letter case
ContentTypeKeys(h) == DOMAIN h \cap {"Content-Type", "content-type"}

\* C26: the primary probe carries a body only when the operator's body is
\* not empty and the verb is POST, PUT or PATCH; the body sent is the
\* operator's, unchanged; a Content-Type of application/json is added only
\* when the body is JSON and the operator's headers have no Content-Type,
\* and the operator's Content-Type is left as it is; a body that is no JSON
\* never gives the failure "Invalid JSON in request body".
C26_BodyAndContentType ==
    IsObject =>
        /\ \A i \in CallsOf("probe") :
              LET sent == calls[i].kwargs
                  body == EnvBody(envelope)
              IN  /\ "data" \in DOMAIN sent =>
                        /\ body # ""
                        /\ EnvMethod(envelope) \in {"POST", "PUT", "PATCH"}
                        /\ sent["data"] = body
                  /\ \A k \in ContentTypeKeys(sent["headers"]) :
                        IF k \in DOMAIN EnvHeaders(envelope)
                        THEN sent["headers"][k] = EnvHeaders(envelope)[k]
                        ELSE /\ sent["headers"][k] = "application/json"
                             /\ "data" \in DOMAIN sent
                             /\ IsJson(body)
                             /\ ContentTypeKeys(EnvHeaders(envelope)) = {}
        /\ (Running /\ Returned) => result # Failure(400, "Invalid JSON in request body")

\* C29: every host the proxy contacts is accepted by _is_url_allowed under
\* the current policy: the URL of every outbound call, and the final URL of
\* a response, which is where the redirects that were followed ended.
C29_EveryHostAllowed ==
    /\ \A i \in 1..Len(calls) :
          is_url_allowed(calls[i].kwargs["url"], allowed_hosts).allowed
    /\ (Returned /\ result.kind = "response") =>
          is_url_allowed(result.url, allowed_hosts).allowed

\* sub is found in text
Contains(text, sub) ==
    \E k \in 0..(Len(text) - Len(sub)) : SubSeq(text, k + 1, k + Len(sub)) = sub

\* the parameter names declared in the fragments of a chain's ancestors
AncestorParams(chain) ==
    UNION {ParamNames(extract_url_parameters(Fragments(chain)[k])) : k \in 1..(Len(chain) - 1)}

\* C28: a descriptor's parameters list is extract_url_parameters of the
\* leaf's own fragment as it is written, anchors included; a parameter
\* declared only in an ancestor's prefix is written in the descriptor's
\* pattern and is not in its parameters list.
C28_ParametersOfLeafFragment ==
    \A i \in Paired :
        LET own == extract_url_parameters(LeafOf(Chains[i]).pattern)
            listed == col_output.urls[i].url_parameters
        IN  /\ listed = own
            /\ \A name \in AncestorParams(Chains[i]) \ ParamNames(own) :
                  /\ name \notin ParamNames(listed)
                  /\ Contains(col_output.urls[i].pattern, <<"<">> \o name \o <<">">>)

\* C28 witness: a leaf with an anchored regex under a group whose prefix
\* declares the parameter b: k is listed, b is not
C28_Witness_AnchoredLeafUnderParameter ==
    \E i \in Paired :
        /\ Len(Chains[i]) = 2
        /\ <<"b">> \in AncestorParams(Chains[i])
        /\ CharAt(LeafOf(Chains[i]).pattern, 1, "^")
        /\ ParamNames(col_output.urls[i].url_parameters) = {<<"k">>}
        /\ Contains(col_output.urls[i].pattern, <<"<", "b", ">">>)

(***************************************************************************)
(* get_drf_serializer_info (utils.py).  A view class either is None or is  *)
(* a class that may carry a serializer_class attribute and may define      *)
(* get_serializer_class.  A serializer class may lack __name__ (a partial  *)
(* or an instance used as a factory), may fail to instantiate, may fail to *)
(* yield .fields, and each of its fields may fail while it is described.   *)
(***************************************************************************)
MaxFields == 3

NoChoices == [kind |-> "absent"]
EmptyChoices == [kind |-> "empty"]
ListChoices == [kind |-> "list", keys |-> <<"x", "y">>]
DictChoices == [kind |-> "dict", keys |-> <<"k">>]
RaisingChoices == [kind |-> "raises"]

Field(name, type, required, help_text, choices) ==
    [name |-> name, type |-> type, required |-> required, read_only |-> ~required,
     write_only |-> FALSE, help_text |-> help_text, choices |-> choices]

SampleFields == {
    Field("id", "IntegerField", FALSE, None, NoChoices),
    Field("title", "CharField", TRUE, "shown", EmptyChoices),
    Field("state", "ChoiceField", TRUE, "", ListChoices),
    Field("kind", "ChoiceField", FALSE, "", DictChoices),
    Field("lazy", "ChoiceField", TRUE, "", RaisingChoices) }

SerializerClass(hasName, instantiates, readable, fields) ==
    [has_name |-> hasName, name |-> "ItemSerializer", module |-> "app.serializers",
     instantiates |-> instantiates, fields_readable |-> readable, fields |-> fields]

FieldSeqs == UNION { [1..n -> SampleFields] : n \in 0..MaxFields }

SampleSerializerClasses ==
    { SerializerClass(hasName, instantiates, readable, fields) :
        hasName \in BOOLEAN, instantiates \in BOOLEAN, readable \in BOOLEAN,
        fields \in FieldSeqs }

DrfView(serializer_class, accessor) ==
    [kind |-> "class", serializer_class |-> serializer_class,
     get_serializer_class |-> accessor]

SampleDrfViews ==
    {CallbackNone}
    \cup { DrfView(Absent, accessor) : accessor \in BOOLEAN }
    \cup { DrfView(Attr(sc), accessor) :
             sc \in SampleSerializerClasses, accessor \in BOOLEAN }

\* the dict appended per field
FieldInfo(field) ==
    [name |-> field.name,
     type |-> field.type,
     required |-> field.required,
     read_only |-> field.read_only,
     write_only |-> field.write_only,
     help_text |-> IF field.help_text \in {None, ""} THEN "" ELSE field.help_text,
     choices |-> IF field.choices.kind \in {"list", "dict"}
                 THEN field.choices.keys ELSE None]

\* fields_info after the inner try: what the loop appended before anything raised
FieldsInfo(sc) ==
    IF ~sc.instantiates \/ ~sc.fields_readable THEN <<>>
    ELSE LET raising == { i \in 1..Len(sc.fields) : sc.fields[i].choices = RaisingChoices }
             appended == IF raising = {} THEN Len(sc.fields)
                         ELSE (CHOOSE i \in raising : \A j \in raising : i <= j) - 1
         IN  [i \in 1..appended |-> FieldInfo(sc.fields[i])]

DynamicPlaceholder ==
    [kind |-> "dict", has_serializer |-> TRUE, serializer_class |-> None,
     serializer_name |-> "Dynamic (via get_serializer_class)", fields |-> <<>>,
     is_dynamic |-> TRUE]

get_drf_serializer_info(view_class) ==
    IF view_class = CallbackNone THEN CallbackNone
    ELSE IF ~view_class.serializer_class.has
         THEN IF view_class.get_serializer_class THEN DynamicPlaceholder
              ELSE CallbackNone
         ELSE LET sc == view_class.serializer_class.value
                  fields_info == FieldsInfo(sc)
              IN  IF ~sc.has_name THEN CallbackNone
                  ELSE [kind |-> "dict", has_serializer |-> TRUE,
                        serializer_class |-> <<sc.module, ".", sc.name>>,
                        serializer_name |-> sc.name,
                        fields |-> fields_info,
                        is_dynamic |-> FALSE]

InitSerializer ==
    /\ enable_testing = TRUE
    /\ requests_installed = TRUE
    /\ allowed_hosts = NotConfigured
    /\ CheckIdle
    /\ ProxyIdle
    /\ FilterIdle
    /\ InventoryIdle

\* get_drf_serializer_info(view_class)
GetDrfSerializerInfo ==
    /\ ser_view_class = NoCallback
    /\ \E view_class \in SampleDrfViews :
          /\ ser_view_class' = view_class
          /\ ser_info' = get_drf_serializer_info(view_class)
    /\ UNCHANGED <<settingsVars, chkVars, proxyVars, fltVars, nrmVars, hdlVars,
                   colVars, apiVars>>

\* the caller is done with the result
DropSerializerInfo ==
    /\ ser_view_class # NoCallback
    /\ ser_view_class' = NoCallback
    /\ ser_info' = NoOutput
    /\ UNCHANGED <<settingsVars, chkVars, proxyVars, fltVars, nrmVars, hdlVars,
                   colVars, apiVars>>

NextSerializer == GetDrfSerializerInfo \/ DropSerializerInfo

SpecSerializer == InitSerializer /\ [][NextSerializer]_vars

SchemaFails(sc) ==
    \/ ~sc.instantiates
    \/ ~sc.fields_readable
    \/ \E i \in 1..Len(sc.fields) : sc.fields[i].choices = RaisingChoices

\* C27: get_drf_serializer_info returns None for no view class or a class with
\* neither serializer_class nor get_serializer_class, the dynamic placeholder
\* when only get_serializer_class exists, and otherwise a descriptor with
\* is_dynamic false whose field list has one entry per schema field, or is
\* empty when instantiating the schema or reading its fields fails anywhere.
C27_SchemaInfoShape ==
    ser_view_class # NoCallback =>
        IF ser_view_class = CallbackNone THEN ser_info = CallbackNone
        ELSE IF ~ser_view_class.serializer_class.has
             THEN IF ser_view_class.get_serializer_class
                  THEN ser_info = DynamicPlaceholder
                  ELSE ser_info = CallbackNone
             ELSE LET sc == ser_view_class.serializer_class.value
                  IN  /\ ser_info.kind = "dict"
                      /\ ser_info.is_dynamic = FALSE
                      /\ IF SchemaFails(sc) THEN ser_info.fields = <<>>
                         ELSE /\ Len(ser_info.fields) = Len(sc.fields)
                              /\ \A i \in 1..Len(sc.fields) :
                                    ser_info.fields[i].name = sc.fields[i].name

(***************************************************************************)
(* The public methods of UrlListInterface (utils.py): get_url_list with    *)
(* its per-instance cache, and the views derived from it.  The tree is the *)
(* list self.resolver.url_patterns yields when it is read; it may change   *)
(* between two calls.                                                      *)
(***************************************************************************)
MaxTraversals == 2

\* the characters of the samples, by code point
CodePointOrder ==
    <<"$", "(", ")", "+", "-", ".", "/">> \o DigitChars \o <<":", "<", ">", "?">>
    \o UpperAlpha \o <<"[", "]", "^", "_">> \o LowerAlpha \o <<"|">>

Ord(c) == CHOOSE i \in 1..Len(CodePointOrder) : CodePointOrder[i] = c

\* a <= b for two str
TextLeq(a, b) ==
    LET n == IF Len(a) <= Len(b) THEN Len(a) ELSE Len(b)
        differ == { i \in 1..n : a[i] # b[i] }
    IN  IF differ = {} THEN Len(a) <= Len(b)
        ELSE LET i == CHOOSE i \in differ : \A j \in differ : i <= j
             IN  Ord(a[i]) < Ord(b[i])

\* sorted(namespaces) for a set of str
RECURSIVE Sorted(_)
Sorted(texts) ==
    IF texts = {} THEN <<>>
    ELSE LET least == CHOOSE x \in texts : \A y \in texts : TextLeq(x, y)
         IN  <<least>> \o Sorted(texts \ {least})

\* the characters of the dotted parts _get_view_info joins
PartText(part) ==
    CASE part = "app.views" -> <<"a","p","p",".","v","i","e","w","s">>
      [] part = "item_view" -> <<"i","t","e","m","_","v","i","e","w">>
      [] part = "ItemView" -> <<"I","t","e","m","V","i","e","w">>
      [] part = "Unknown" -> <<"U","n","k","n","o","w","n">>

\* url["view"] as one str
RECURSIVE ViewText(_)
ViewText(parts) ==
    IF parts = <<>> THEN <<>>
    ELSE IF Len(parts) = 1 THEN PartText(parts[1])
    ELSE PartText(parts[1]) \o <<".">> \o ViewText(Tail(parts))

RootKey == <<"_","r","o","o","t">>

\* variant: the cache is not consulted
get_url_list_AlwaysFresh(cache, t, excl) ==
    LET raw == extract_patterns(t)
    IN  IF raw.kind = "raise"
        THEN [cache |-> cache, out |-> raw, traversed |-> TRUE]
        ELSE [cache |-> raw.urls,
              out |-> Listed(filter_excluded_urls(raw.urls, excl)),
              traversed |-> TRUE]

\* get_url_list on an instance whose _url_patterns is cache and whose resolver
\* yields t: the new _url_patterns, what is returned or raised, and whether
\* _extract_patterns ran
get_url_list(cache, t, excl) ==
    LET raw == IF cache = <<>> THEN extract_patterns(t) ELSE Listed(cache)
    IN  IF raw.kind = "raise"
        THEN [cache |-> cache, out |-> raw, traversed |-> TRUE]
        ELSE [cache |-> raw.urls,
              out |-> Listed(filter_excluded_urls(raw.urls, excl)),
              traversed |-> cache = <<>>]

\* url["namespace"] or "_root"
GroupKey(url) == IF TextTruthy(url.namespace) THEN url.namespace ELSE RootKey

\* get_grouped_urls, from the list get_url_list returned
get_grouped_urls(urls) ==
    [key \in { GroupKey(urls[i]) : i \in 1..Len(urls) } |->
        SelectSeq(urls, LAMBDA url : GroupKey(url) = key)]

\* search_urls(query), from the list get_url_list returned
search_urls(urls, query) ==
    SelectSeq(urls, LAMBDA url :
        \/ Contains(Lower(url.pattern), Lower(query))
        \/ TextTruthy(url.name) /\ Contains(Lower(url.name), Lower(query))
        \/ Contains(Lower(ViewText(url.view)), Lower(query)))

\* get_stats, from the list get_url_list returned
get_stats(urls) ==
    LET namespaces == { urls[i].namespace : i \in { j \in 1..Len(urls) :
                                                     TextTruthy(urls[j].namespace) } }
        named_urls == SelectSeq(urls, LAMBDA url : TextTruthy(url.name))
    IN  [total_urls |-> Len(urls),
         named_urls |-> Len(named_urls),
         namespaces |-> Cardinality(namespaces),
         namespace_list |-> Sorted(namespaces)]

\* get_url_by_pattern(pattern), from the list get_url_list returned
get_url_by_pattern(urls, pattern) ==
    LET hits == { i \in 1..Len(urls) : urls[i].pattern = pattern }
    IN  IF hits = {} THEN CallbackNone
        ELSE urls[CHOOSE i \in hits : \A j \in hits : i <= j]

Call(op, arg) == [op |-> op, arg |-> arg]

\* what a method returns for the list get_url_list returned
DerivedView(call, urls) ==
    CASE call.op = "get_url_list" -> Listed(urls)
      [] call.op = "get_grouped_urls" -> [kind |-> "dict", groups |-> get_grouped_urls(urls)]
      [] call.op = "search_urls" -> [kind |-> "found", urls |-> search_urls(urls, call.arg)]
      [] call.op = "get_stats" -> [kind |-> "stats", stats |-> get_stats(urls)]
      [] call.op = "get_url_by_pattern" ->
             [kind |-> "url", url |-> get_url_by_pattern(urls, call.arg)]

T_admin == <<"a","d","m","i","n">>

\* include("admin/", namespace="admin"), include("api/") and
\* include("api/", namespace="_root")
InventoryGroups(children) == {
    URLResolver(T_admin \o <<"/">>, T_admin, children),
    URLResolver(<<"a","p","i","/">>, NoneText, children),
    URLResolver(<<"a","p","i","/">>, RootKey, children) }

HomeView == Callback(Attr(ViewClass(TRUE, Absent, {"get", "post"})), Absent, Absent, Absent)
NamelessView == Callback(Attr(ViewClass(FALSE, Absent, {"get"})), Absent, Absent, Absent)

\* a named class-based route and an unnamed route without handler
InventoryLeaves == {
    URLPattern(<<"^","$">>, <<"h","o","m","e">>, HomeView),
    URLPattern(<<"<","i","n","t",":","p",">","/">>, NoneText, CallbackNone) }

\* no route at all; an include without routes; an include with one route,
\* then a route; the same with a route whose view_class has no __name__
InventoryTrees ==
    { [root |-> <<>>, nodes |-> <<>>] }
    \cup { [root |-> <<1>>, nodes |-> <<URLResolver(T_admin \o <<"/">>, T_admin, <<>>)>>] }
    \cup { Tree(<<1, 3>>, g, a,
                 URLPattern(<<"<","i","n","t",":","p",">","/">>, NoneText, CallbackNone)) :
             g \in InventoryGroups(<<2>>), a \in InventoryLeaves }
    \cup { Tree(<<1, 3>>, URLResolver(T_admin \o <<"/">>, T_admin, <<2>>), a,
                 URLPattern(<<"^","u","/","$">>, <<"l">>, NamelessView)) :
             a \in InventoryLeaves }

\* EXCLUDE_URLS unset, or [r"^admin/"]
InventoryExcludes == {<<>>, <<Pattern(T_admin \o <<"/">>, {}, <<>>, FALSE)>>}

SampleQueries == {<<"A","D","M","I","N">>, <<"i","t","e","m">>}
SampleLookups == {<<"/","a","d","m","i","n","/">>, <<"/","z","/">>}

InitInventory ==
    /\ enable_testing = TRUE
    /\ requests_installed = TRUE
    /\ allowed_hosts = NotConfigured
    /\ CheckIdle
    /\ ProxyIdle
    /\ FilterIdle
    /\ NormalizerIdle
    /\ IntrospectIdle
    /\ SerializerIdle
    /\ ApiIdle
    /\ url_config = None
    /\ urlconf_arg = None
    /\ urlconf = None
    /\ tree \in InventoryTrees
    /\ col_output = NoOutput

\* UrlListInterface(): _url_patterns = [], then _load_settings()
NewInstance ==
    /\ urlconf = None
    /\ urlconf' = InitUrlconf(None)
    /\ exclude_patterns' \in InventoryExcludes
    /\ self_url_patterns' = <<>>
    /\ traversals' = 0
    /\ api_call' = NoCall
    /\ api_output' = NoOutput
    /\ UNCHANGED <<settingsVars, chkVars, proxyVars, flt_input, flt_output, nrmVars,
                   hdlVars, serVars, url_config, urlconf_arg, tree, col_output>>

\* the URLconf's list of routes is changed between two calls
TreeChanges ==
    /\ api_call = NoCall
    /\ tree' \in InventoryTrees \ {tree}
    /\ UNCHANGED <<settingsVars, chkVars, proxyVars, fltVars, nrmVars, hdlVars, serVars,
                   apiVars, url_config, urlconf_arg, urlconf, col_output>>

\* one call of a public method: get_url_list() first, then the view of its list
Invoke(call) ==
    /\ urlconf # None
    /\ api_call = NoCall
    /\ traversals < MaxTraversals
    /\ \E got \in {get_url_list(self_url_patterns, tree, exclude_patterns)} :
          /\ self_url_patterns' = got.cache
          /\ traversals' = IF got.traversed THEN traversals + 1 ELSE traversals
          /\ api_output' = IF got.out.kind = "raise" THEN got.out
                           ELSE DerivedView(call, got.out.urls)
    /\ api_call' = call
    /\ UNCHANGED <<settingsVars, chkVars, proxyVars, fltVars, nrmVars, hdlVars, serVars,
                   colVars>>

GetUrlList == Invoke(Call("get_url_list", <<>>))

GetGroupedUrls == Invoke(Call("get_grouped_urls", <<>>))

SearchUrls == \E query \in SampleQueries : Invoke(Call("search_urls", query))

GetStats == Invoke(Call("get_stats", <<>>))

GetUrlByPattern == \E pattern \in SampleLookups : Invoke(Call("get_url_by_pattern", pattern))

\* the call has returned; the caller keeps what it got
ApiReturn ==
    /\ api_call # NoCall
    /\ api_call' = NoCall
    /\ UNCHANGED <<settingsVars, chkVars, proxyVars, fltVars, nrmVars, hdlVars, serVars,
                   colVars, self_url_patterns, api_output, traversals>>

\* the instance is dropped at the end of the request
DropInstance ==
    /\ urlconf # None
    /\ api_call = NoCall
    /\ urlconf' = None
    /\ exclude_patterns' = <<>>
    /\ self_url_patterns' = <<>>
    /\ traversals' = 0
    /\ api_output' = NoOutput
    /\ UNCHANGED <<settingsVars, chkVars, proxyVars, flt_input, flt_output, nrmVars,
                   hdlVars, serVars, url_config, urlconf_arg, tree, col_output, api_call>>

NextInventory ==
    \/ NewInstance
    \/ TreeChanges
    \/ GetUrlList
    \/ GetGroupedUrls
    \/ SearchUrls
    \/ GetStats
    \/ GetUrlByPattern
    \/ ApiReturn
    \/ DropInstance

SpecInventory == InitInventory /\ [][NextInventory]_vars

\* the filtered inventory of the instance, once its raw inventory is held
FilteredInventory == filter_excluded_urls(self_url_patterns, exclude_patterns)

RECURSIVE TotalSize(_, _)
TotalSize(groups, keys) ==
    IF keys = {} THEN 0
    ELSE LET key == CHOOSE k \in keys : TRUE
         IN  Len(groups[key]) + TotalSize(groups, keys \ {key})

Ascending(texts) ==
    \A i \in 1..Len(texts) : \A j \in 1..Len(texts) :
        i < j => texts[i] # texts[j] /\ TextLeq(texts[i], texts[j])

\* C21: get_grouped_urls partitions the filtered inventory: each group holds,
\* in inventory order, the descriptors whose namespace is its key, the group
\* '_root' holds exactly the descriptors without namespace, and the sizes add
\* up to the inventory; get_stats gives the total as that sum, the number of
\* named descriptors, the number of distinct namespaces, which is the number
\* of group keys other than '_root', and the namespaces sorted, each once.
C21_GroupsAndStats ==
    LET grouped == get_grouped_urls(FilteredInventory)
    IN  /\ api_output.kind = "dict" =>
              /\ api_output.groups = grouped
              /\ \A key \in DOMAIN grouped \ {RootKey} :
                    grouped[key] = SelectSeq(FilteredInventory,
                                             LAMBDA url : url.namespace = key)
              /\ RootKey \in DOMAIN grouped =>
                    grouped[RootKey] = SelectSeq(FilteredInventory,
                                                 LAMBDA url : ~TextTruthy(url.namespace))
              /\ TotalSize(grouped, DOMAIN grouped) = Len(FilteredInventory)
        /\ api_output.kind = "stats" =>
              LET stats == api_output.stats
                  named == SelectSeq(FilteredInventory, LAMBDA url : url.name # NoneText)
                  spaces == { FilteredInventory[i].namespace :
                                i \in 1..Len(FilteredInventory) } \ {NoneText}
              IN  /\ stats.total_urls = TotalSize(grouped, DOMAIN grouped)
                  /\ stats.named_urls = Len(named)
                  /\ stats.named_urls <= stats.total_urls
                  /\ stats.namespaces = Cardinality(spaces)
                  /\ stats.namespaces = Cardinality(DOMAIN grouped \ {RootKey})
                  /\ Ascending(stats.namespace_list)
                  /\ { stats.namespace_list[i] : i \in 1..Len(stats.namespace_list) } = spaces

\* the same, on instances whose filtered inventory has no namespace '_root'
C21_GroupsAndStats_NoRootNamespace ==
    (\A i \in 1..Len(FilteredInventory) : FilteredInventory[i].namespace # RootKey)
    => C21_GroupsAndStats

\* a public method is called on the instance in this step
MethodCalled == api_call = NoCall /\ api_call' # NoCall

\* the rule of one step, for C30
CacheRule ==
    /\ (MethodCalled /\ self_url_patterns # <<>>) =>
          /\ traversals' = traversals
          /\ self_url_patterns' = self_url_patterns
          /\ api_output' = DerivedView(api_call',
                               filter_excluded_urls(self_url_patterns, exclude_patterns))
          /\ ((api_call'.op = "get_url_list" /\ api_output.kind = "list")
                 => api_output' = api_output)
    /\ (MethodCalled /\ self_url_patterns = <<>>) =>
          /\ traversals' = traversals + 1
          /\ api_output' =
                 IF extract_patterns(tree).kind = "raise" THEN extract_patterns(tree)
                 ELSE DerivedView(api_call',
                          filter_excluded_urls(extract_patterns(tree).urls,
                                               exclude_patterns))
          /\ (extract_patterns(tree).kind = "list"
                 => self_url_patterns' = extract_patterns(tree).urls)
    /\ (~MethodCalled /\ urlconf # None /\ urlconf' # None) =>
          /\ self_url_patterns' = self_url_patterns
          /\ traversals' = traversals
          /\ exclude_patterns' = exclude_patterns
    /\ (urlconf = None /\ urlconf' # None) =>
          /\ self_url_patterns' = <<>>
          /\ traversals' = 0

\* C30: on one instance, once _url_patterns holds a non-empty raw inventory,
\* every later call of a public method is derived from it, filtered anew,
\* without another traversal, nothing but the instance's end changes it, and a
\* get_url_list that follows a get_url_list returns the same list whatever the
\* tree has become; while the raw inventory is empty every call traverses the
\* tree as it is now; a new instance starts without inventory.
C30_CachedForTheInstance == [][CacheRule]_vars

\* C30 witness: get_url_list has just returned the list of the inventory the
\* instance collected once, after the tree has become one whose traversal
\* gives another list
C30_Witness_StaleAfterChange ==
    /\ api_call.op = "get_url_list"
    /\ traversals = 1
    /\ self_url_patterns # <<>>
    /\ api_output = Listed(FilteredInventory)
    /\ extract_patterns(tree).kind = "list"
    /\ extract_patterns(tree).urls # self_url_patterns
    /\ filter_excluded_urls(extract_patterns(tree).urls, exclude_patterns)
           # api_output.urls
    /\ api_output.urls # self_url_patterns

\* an instance whose tree has no route has traversed it at each of two calls
C30_Reached_EmptyTraversedTwice ==
    /\ api_call.op = "get_stats"
    /\ traversals = 2
    /\ self_url_patterns = <<>>
    /\ api_output.kind = "stats"

====
